---------------------------- MODULE Spec2Model ----------------------------
(***************************************************************************)
(* Model of the cache core of awsome-ai-news: the advisory lock file and   *)
(* Step 0 (src/steps/step0_cache.py), the exact-slug deduplication and its *)
(* date-sharded article cache (src/steps/step2_dedup.py), and the          *)
(* multi-day cluster merge (src/steps/step4_multi_dedup.py).               *)
(*                                                                         *)
(* The specifications share the variables:                                 *)
(*   SpecLock      one caller using acquire_lock_file / release_lock_file  *)
(*   SpecPipeline  several pipeline instances, file operations interleaved *)
(*   SpecDedup     run_step2 over the article shards across days           *)
(*   SpecSave      run_step2 and _save_articles_to_daily_cache on one day  *)
(*   SpecMerge     run_step4 over the cluster shards across days           *)
(***************************************************************************)
EXTENDS Integers, Sequences, FiniteSets, TLC

(***************************************************************************)
(* Program constants and bounds                                            *)
(***************************************************************************)
\* lock_age > 3600 in acquire_lock_file
StaleAfter == 3600

\* the wall clock (time.time()) stops advancing here
MaxTime == 7204

\* calls recorded for the single caller of SpecLock
MaxCalls == 4

\* pipeline instances started in SpecPipeline
NumInstances == 2

Instances == 1..NumInstances

\* cutoff_date = datetime.now() - timedelta(days=10) in run_step2
ArticleLookbackDays == 10

\* AdvanceDay steps in one behaviour
MaxAdvances == 2

\* instants in one day: 0 is midnight, TicksPerDay - 1 the last one
TicksPerDay == 2

\* run_step2 calls and direct saves in one behaviour
MaxOps == 3

\* longest batch handed to run_step2
MaxBatch == 2

\* shard files the environment damages in one behaviour
MaxCorrupt == 1

\* days that pass in one AdvanceDay step: one, or the whole lookback
ArticleDaySteps == {1, ArticleLookbackDays}

\* Step4Config.lookback_days, at its default
NewsLookbackDays == 3

NewsDaySteps == {1, NewsLookbackDays}

\* SpecRuns: the days to the next run
RunDaySteps == {1, ArticleLookbackDays - 1, ArticleLookbackDays}

\* keywords kept by a merge: list(set(...))[:10]
KeywordLimit == 10

\* retention={"articles_days": 10, "news_days": 3}
ArticlesDays == 10

NewsDays == 3

\* _backup_cache calls in one behaviour
MaxBackupCalls == 7

\* instants in a second of the clock _backup_cache reads
TicksPerSecond == 2

\* the last instant of that clock
MaxBackupClock == 15

\* backups kept: backups[:-5] are removed
BackupsKept == 5

\* the days that pass in one step of the cleanup runs
CleanupDaySteps == {1, NewsDays, ArticlesDays}

\* run_step4 calls in one behaviour
MaxMergeRuns == 2

\* longest today_news handed to run_step4
MaxNews == 2

\* longest list of duplicate pairs the API returns
MaxPairs == 2

\* SpecStep0: run_step0 is called while fewer operations than this were made
MaxStep0Ops == 2

\* generate_slug: if counter >= 10
SlugTries == 10

\* SpecSlug: the generate_slug calls in a row
MaxSlugCalls == 2

\* SpecNewsId: the _generate_news_id calls, and the slugs of a call
MaxIdCalls == 2

MaxIdSlugs == 2

\* articles by slug and payload: two of them carry the same slug
Articles == {[slug |-> "a", v |-> 1], [slug |-> "a", v |-> 2], [slug |-> "b", v |-> 1]}

RECURSIVE SeqsUpTo(_, _)
SeqsUpTo(S, n) ==
    IF n = 0 THEN {<<>>}
    ELSE LET shorter == SeqsUpTo(S, n - 1) IN
         shorter \cup {Append(q, x) : q \in {r \in shorter : Len(r) = n - 1}, x \in S}

Batches == SeqsUpTo(Articles, MaxBatch)

\* amounts by which the wall clock advances in one step: half the staleness
\* age, and a second more (two steps give the ages 3600, 3601 and 3602)
TickSteps == {StaleAfter \div 2, StaleAfter \div 2 + 1}

VARIABLES
    time,       \* time.time(), in seconds
    lockFile,   \* cache_dir/.lock: [exists, mtime, owner]
    calls,      \* SpecLock: the calls made so far, with their results
    pc,         \* SpecPipeline: where each instance is in run_pipeline
    step0ok,    \* SpecPipeline: Step0Result.success of each instance
    acqTime,    \* SpecPipeline: when the instance's acquire_lock_file returned True (-1: it has not)
    sawLater,   \* SpecPipeline: the instances that were past Step 0 when this one started
    nowDay,     \* datetime.now(): the calendar day
    nowTod,     \* datetime.now(): the instant of the day, 0 being midnight
    articleFiles, \* cache/articles/<day>.json: a set of [day, kind, articles, total_count]
    strayFile,  \* whether cache/articles holds a .json file whose name is no date
    ops,        \* the calls of the steps and the direct saves so far
    advances,   \* AdvanceDay steps so far
    corrupted,  \* files damaged so far
    lastRun,    \* the run_step2 call just made: its inputs, the cache before it, its
                \* result (NoRun once anything else has happened)
    lastSave,   \* the _save_articles_to_daily_cache call just made (NoSave likewise)
    newsFiles,  \* cache/news/news_<day>.json: a set of [day, kind, news]
    lastStep4,  \* the run_step4 call just made (NoStep4 likewise)
    lastMerge,  \* SpecMergeCall: the _merge_duplicate_news call made, its
                \* arguments and what it returned
    entries,    \* cache/<key>.json, the entries CacheManager keeps by key:
                \* key -> [exists, kind, cached_at]
    lastCleanup, \* the cleanup of run_step0 just made: the cache before and after it
    backups,    \* cache_backups/: the timestamps of the cache_backup_<timestamp> there
    created,    \* the timestamps the _backup_cache calls so far copied to, in order
    backupClock, \* datetime.now() as _backup_cache reads it, in instants of
                \* which a second has TicksPerSecond
    lastStep0,  \* SpecStep0: the run_step0 call just made: its configuration, the
                \* failures it met, the lock and the cache before and after it,
                \* its Step0Result
    slugCall,   \* SpecSlug: the generate_slug call just made, its arguments and
                \* its outcome
    idCalls,    \* SpecNewsId: the _generate_news_id calls made, with their results
    runLog,     \* the run_step2 calls so far, in order: the day of each and the
                \* slugs of the articles it returned as unique
    lastPersist \* SpecPersist: the last call of a step whose write of today's shard
                \* failed: the step, and what it reported

lockVars == <<time, lockFile, calls>>
pipeVars == <<pc, step0ok, acqTime, sawLater>>
dedupVars == <<articleFiles, strayFile, lastRun, lastSave, runLog>>
mergeVars == <<newsFiles, lastStep4, lastMerge>>
step0Vars == <<entries, lastCleanup, backups, created, backupClock, lastStep0>>
pureVars == <<slugCall, idCalls, lastPersist>>
cacheVars == <<nowDay, nowTod, ops, advances, corrupted, dedupVars, mergeVars>>
vars == <<time, lockFile, calls, pc, step0ok, acqTime, sawLater,
          nowDay, nowTod, articleFiles, strayFile, ops, advances, corrupted,
          lastRun, lastSave, newsFiles, lastStep4, lastMerge,
          entries, lastCleanup, backups, created, backupClock, lastStep0,
          slugCall, idCalls, runLog, lastPersist>>

NoLock == [exists |-> FALSE, mtime |-> 0, owner |-> 0]

\* Step0Result(success, cache_cleaned, cache_backed_up, errors)
Step0Result(success, cache_cleaned, cache_backed_up, errors) ==
    [success |-> success, cache_cleaned |-> cache_cleaned,
     cache_backed_up |-> cache_backed_up, errors |-> errors]

\* no run_step0 call has just been made
NoStep0 ==
    [called |-> FALSE, config |-> [backup_on_error |-> FALSE, cleanup_on_start |-> FALSE],
     faults |-> [permissions |-> FALSE, backup |-> "none", cleanup |-> FALSE,
                 unexpected |-> "none"],
     t |-> 0, now |-> 0, preLock |-> NoLock, postLock |-> NoLock,
     preEntries |-> <<>>, postEntries |-> <<>>, preBackups |-> {}, postBackups |-> {},
     result |-> Step0Result(TRUE, 0, FALSE, <<>>), path |-> "", acquired |-> FALSE,
     cleanup_done |-> FALSE, continues |-> FALSE]

(***************************************************************************)
(* acquire_lock_file / release_lock_file                                   *)
(***************************************************************************)
\* lock_age = time.time() - lock_file.stat().st_mtime
lock_age(lf, t) == t - lf.mtime

LockIsStaleGE(lf, t) == lock_age(lf, t) >= StaleAfter

\* if lock_age > 3600
LockIsStale(lf, t) == lock_age(lf, t) > StaleAfter

\* lock_file.write_text(...): the file now exists, modified at t
WriteLock(t, who) == [exists |-> TRUE, mtime |-> t, owner |-> who]

\* acquire_lock_file run without interruption: [ret, lock]
acquire_lock_file(lf, t, who) ==
    IF lf.exists
    THEN IF LockIsStale(lf, t)
         THEN [ret |-> TRUE, lock |-> WriteLock(t, who)]
         ELSE [ret |-> FALSE, lock |-> lf]
    ELSE [ret |-> TRUE, lock |-> WriteLock(t, who)]

release_lock_file_keep(lf) == lf

\* release_lock_file: unlink when the file exists
release_lock_file(lf) == IF lf.exists THEN NoLock ELSE lf

(***************************************************************************)
(* SpecLock: one caller                                                    *)
(***************************************************************************)
Tick ==
    /\ \E d \in TickSteps :
          /\ time + d <= MaxTime
          /\ time' = time + d
    /\ UNCHANGED <<lockFile, calls>>
    /\ UNCHANGED pipeVars
    /\ UNCHANGED cacheVars
    /\ lastStep0' = NoStep0
    /\ UNCHANGED <<entries, lastCleanup, backups, created, backupClock>>
    /\ UNCHANGED pureVars

CallAcquire ==
    /\ Len(calls) < MaxCalls
    /\ LET r == acquire_lock_file(lockFile, time, 1) IN
          /\ lockFile' = r.lock
          /\ calls' = Append(calls, [op |-> "acquire", ret |-> r.ret, t |-> time,
                                     pre |-> lockFile, post |-> r.lock])
    /\ UNCHANGED time
    /\ UNCHANGED pipeVars
    /\ UNCHANGED cacheVars
    /\ UNCHANGED step0Vars
    /\ UNCHANGED pureVars

CallRelease ==
    /\ Len(calls) < MaxCalls
    /\ lockFile' = release_lock_file(lockFile)
    /\ calls' = Append(calls, [op |-> "release", ret |-> TRUE, t |-> time,
                               pre |-> lockFile, post |-> release_lock_file(lockFile)])
    /\ UNCHANGED time
    /\ UNCHANGED pipeVars
    /\ UNCHANGED cacheVars
    /\ UNCHANGED step0Vars
    /\ UNCHANGED pureVars

(***************************************************************************)
(* SpecPipeline: run_pipeline of several instances; every file operation   *)
(* of acquire_lock_file is a step of its own                               *)
(***************************************************************************)
\* main(): the instance starts run_pipeline, which calls run_step0
StartPipeline(p) ==
    /\ pc[p] = "idle"
    /\ pc' = [pc EXCEPT ![p] = "acq_exists"]
    /\ sawLater' = [sawLater EXCEPT ![p] = {q \in Instances : pc[q] = "later"}]
    /\ UNCHANGED <<step0ok, acqTime>>
    /\ UNCHANGED lockVars
    /\ UNCHANGED cacheVars
    /\ UNCHANGED step0Vars
    /\ UNCHANGED pureVars

\* if lock_file.exists():
AcqExists(p) ==
    /\ pc[p] = "acq_exists"
    /\ pc' = [pc EXCEPT ![p] = IF lockFile.exists THEN "acq_stat" ELSE "acq_write"]
    /\ UNCHANGED <<step0ok, acqTime, sawLater>>
    /\ UNCHANGED lockVars
    /\ UNCHANGED cacheVars
    /\ UNCHANGED step0Vars
    /\ UNCHANGED pureVars

\* lock_file.stat().st_mtime and the age test; stat() of a file that is gone
\* raises, which the handler turns into return False
AcqStat(p) ==
    /\ pc[p] = "acq_stat"
    /\ IF lockFile.exists /\ LockIsStale(lockFile, time)
       THEN /\ pc' = [pc EXCEPT ![p] = "acq_unlink"]
            /\ UNCHANGED step0ok
       ELSE /\ pc' = [pc EXCEPT ![p] = "release"]
            /\ step0ok' = [step0ok EXCEPT ![p] = FALSE]
    /\ UNCHANGED <<acqTime, sawLater>>
    /\ UNCHANGED lockVars
    /\ UNCHANGED cacheVars
    /\ UNCHANGED step0Vars
    /\ UNCHANGED pureVars

\* lock_file.unlink(): raises when the file is gone (return False)
AcqUnlink(p) ==
    /\ pc[p] = "acq_unlink"
    /\ IF lockFile.exists
       THEN /\ lockFile' = NoLock
            /\ pc' = [pc EXCEPT ![p] = "acq_write"]
            /\ UNCHANGED step0ok
       ELSE /\ pc' = [pc EXCEPT ![p] = "release"]
            /\ step0ok' = [step0ok EXCEPT ![p] = FALSE]
            /\ UNCHANGED lockFile
    /\ UNCHANGED <<acqTime, sawLater>>
    /\ UNCHANGED <<time, calls>>
    /\ UNCHANGED cacheVars
    /\ UNCHANGED step0Vars
    /\ UNCHANGED pureVars

\* lock_file.write_text(...); return True
AcqWrite(p) ==
    /\ pc[p] = "acq_write"
    /\ lockFile' = WriteLock(time, p)
    /\ acqTime' = [acqTime EXCEPT ![p] = time]
    /\ pc' = [pc EXCEPT ![p] = "body"]
    /\ UNCHANGED <<step0ok, sawLater>>
    /\ UNCHANGED <<time, calls>>
    /\ UNCHANGED cacheVars
    /\ UNCHANGED step0Vars
    /\ UNCHANGED pureVars

\* run_step0 after the lock: permission check, backup, cleanup; any of them
\* may add to errors, and success = (len(errors) == 0)
Step0Body(p) ==
    /\ pc[p] = "body"
    /\ \E ok \in BOOLEAN : step0ok' = [step0ok EXCEPT ![p] = ok]
    /\ pc' = [pc EXCEPT ![p] = "release"]
    /\ UNCHANGED <<acqTime, sawLater>>
    /\ UNCHANGED lockVars
    /\ UNCHANGED cacheVars
    /\ UNCHANGED step0Vars
    /\ UNCHANGED pureVars

\* finally: release_lock_file(cache_manager.cache_dir); then run_pipeline
\* goes on to Step 1 when result0.success, and raises CriticalError otherwise
Step0Finally(p) ==
    /\ pc[p] = "release"
    /\ lockFile' = release_lock_file(lockFile)
    /\ pc' = [pc EXCEPT ![p] = IF step0ok[p] THEN "later" ELSE "failed"]
    /\ UNCHANGED <<step0ok, acqTime, sawLater>>
    /\ UNCHANGED <<time, calls>>
    /\ UNCHANGED cacheVars
    /\ UNCHANGED step0Vars
    /\ UNCHANGED pureVars

\* Steps 1..8 of run_pipeline
LaterSteps(p) ==
    /\ pc[p] = "later"
    /\ pc' = [pc EXCEPT ![p] = "done"]
    /\ UNCHANGED <<step0ok, acqTime, sawLater>>
    /\ UNCHANGED lockVars
    /\ UNCHANGED cacheVars
    /\ UNCHANGED step0Vars
    /\ UNCHANGED pureVars

(***************************************************************************)
(* CacheManager entries and the cleanup of run_step0 (src/utils/cache.py)  *)
(*                                                                         *)
(* CacheManager keeps one file for a key, cache/<key>.json, holding the    *)
(* data and cached_at, the datetime.now() of the save.  The keys of the    *)
(* retention policy of run_step0 are modelled by two of them, one for each *)
(* period: "processed_articles" and "clustered_articles" have the period   *)
(* of "articles", "selected_articles" and "enhanced_news" that of "news".  *)
(* The date shards cache/articles/<day>.json and cache/news/news_<day>.json*)
(* are other files, in directories of their own.                           *)
(***************************************************************************)
PolicyKeys == {"articles", "news"}

\* retention_policy = {"articles": config.retention["articles_days"], ...}
RetentionPolicy == [key \in PolicyKeys |-> IF key = "articles" THEN ArticlesDays ELSE NewsDays]

NoEntry == [exists |-> FALSE, kind |-> "", cached_at |-> 0]

\* get_age gives None: no file, or one it cannot read
NoAge == -1

\* get_age: datetime.now() - cached_at
get_age(e, now) ==
    IF ~e.exists \/ e.kind # "json" THEN NoAge ELSE now - e.cached_at

\* is_fresh: age.days < max_age_days, False without an age
is_fresh(e, now, max_age_days) ==
    LET age == get_age(e, now)
    IN  IF age = NoAge THEN FALSE ELSE (age \div TicksPerDay) < max_age_days

\* list_all: the keys of cache/*.json
list_all(ents) == {key \in DOMAIN ents : ents[key].exists}

\* cleanup: for key, max_days in retention_days.items():
\*     if self.exists(key) and not self.is_fresh(key, max_days): self.delete(key)
cleanup(ents, now, retention_days) ==
    [key \in DOMAIN ents |->
        IF /\ key \in DOMAIN retention_days
           /\ ents[key].exists
           /\ ~is_fresh(ents[key], now, retention_days[key])
        THEN NoEntry
        ELSE ents[key]]

NoCleanup ==
    [called |-> FALSE, day |-> 0, tod |-> 0, preEntries |-> <<>>, postEntries |-> <<>>,
     preArticles |-> {}, postArticles |-> {}, preNews |-> {}, postNews |-> {},
     cache_cleaned |-> 0]

(***************************************************************************)
(* The article cache and run_step2 (src/steps/step2_dedup.py)              *)
(*                                                                         *)
(* A datetime is counted in instants, TicksPerDay to the day.  The         *)
(* directory is the set of its date-named files, at most one for a day; a  *)
(* file is [day, kind, articles, total_count], of kind "json", "garbage"   *)
(* (text that json.loads or model_validate rejects) or "undecodable"       *)
(* (bytes that read_text cannot decode: it raises UnicodeDecodeError, a    *)
(* ValueError that is no JSONDecodeError).                                 *)
(***************************************************************************)
\* what FileAt gives for a day that has no file
NoFile == [day |-> -1, kind |-> "absent", articles |-> <<>>, total_count |-> 0]

CorruptKinds == {"garbage", "undecodable"}

Garbage(d, kind) == [day |-> d, kind |-> kind, articles |-> <<>>, total_count |-> 0]

FileDays(files) == {f.day : f \in files}

\* cache_dir / f"{day}.json"
FileAt(files, d) ==
    IF d \in FileDays(files) THEN CHOOSE f \in files : f.day = d ELSE NoFile

\* cache_file.write_text(...)
WriteFile(files, f) == {g \in files : g.day # f.day} \cup {f}

\* datetime.strptime(file_date_str, "%Y-%m-%d"): midnight of that day
FileDate(d) == d * TicksPerDay

\* datetime.now() on day `day`, `tod` instants after midnight
Now(day, tod) == day * TicksPerDay + tod

\* a day short of timedelta(days=n)
DaysDeltaShort(n) == (n - 1) * TicksPerDay

\* timedelta(days=n)
DaysDelta(n) == n * TicksPerDay

\* json.loads and CachedArticlesDay.model_validate accept the file
\* (model_post_init: total_count must match the articles' length)
ValidDay(f) == f.kind = "json" /\ f.total_count = Len(f.articles)

\* if file_date < cutoff_date: continue
TooOld(d, cutoff) == FileDate(d) < cutoff

\* a loop that counts a file older than the cutoff as corrupted
RECURSIVE LoadFromCountOld(_, _, _)
LoadFromCountOld(files, cutoff, acc) ==
    IF files = {} THEN acc
    ELSE LET f == CHOOSE g \in files : \A h \in files : g.day <= h.day
             rest == files \ {f}
         IN  IF ValidDay(f) /\ ~TooOld(f.day, cutoff)
             THEN LoadFromCountOld(rest, cutoff,
                                   [acc EXCEPT !.articles = @ \o f.articles,
                                               !.files_loaded = @ + 1])
             ELSE LoadFromCountOld(rest, cutoff,
                                   [acc EXCEPT !.files_corrupted = @ + 1])

\* the loop of _load_cached_articles over the date-named files, in the
\* order of sorted(glob("*.json")): the earliest day first
RECURSIVE LoadFrom(_, _, _)
LoadFrom(files, cutoff, acc) ==
    IF files = {} THEN acc
    ELSE LET f == CHOOSE g \in files : \A h \in files : g.day <= h.day
             rest == files \ {f}
         IN  IF TooOld(f.day, cutoff)
             THEN LoadFrom(rest, cutoff, acc)
             ELSE IF ValidDay(f)
             THEN LoadFrom(rest, cutoff,
                           [acc EXCEPT !.articles = @ \o f.articles,
                                       !.files_loaded = @ + 1])
             ELSE LoadFrom(rest, cutoff, [acc EXCEPT !.files_corrupted = @ + 1])

\* _load_cached_articles: a file whose name is no date fails strptime and is
\* counted as corrupted before its age is looked at
load_cached_articles(files, stray, cutoff) ==
    LET r == LoadFrom(files, cutoff,
                      [articles |-> <<>>, files_loaded |-> 0, files_corrupted |-> 0])
    IN  IF stray THEN [r EXCEPT !.files_corrupted = @ + 1] ELSE r

SlugsOf(arts) == {arts[i].slug : i \in 1..Len(arts)}

\* a loop that never adds a slug to slug_map
RECURSIVE DedupLoopNoSeen(_, _, _)
DedupLoopNoSeen(articles, known, acc) ==
    IF articles = <<>> THEN acc
    ELSE IF Head(articles).slug \in known
         THEN DedupLoopNoSeen(Tail(articles), known, [acc EXCEPT !.duplicates = @ + 1])
    ELSE DedupLoopNoSeen(Tail(articles), known,
                         [acc EXCEPT !.unique = Append(@, Head(articles))])

\* the for loop of run_step2; `known` is the key set of slug_map
RECURSIVE DedupLoop(_, _, _)
DedupLoop(articles, known, acc) ==
    IF articles = <<>> THEN acc
    ELSE IF Head(articles).slug \in known
         THEN DedupLoop(Tail(articles), known, [acc EXCEPT !.duplicates = @ + 1])
    ELSE DedupLoop(Tail(articles), known \cup {Head(articles).slug},
                   [acc EXCEPT !.unique = Append(@, Head(articles))])

\* all_articles_dict[art.slug] = art, the dict written as the list of its
\* values in insertion order: a present key keeps its place
DictSet(vals, art) ==
    IF \E i \in 1..Len(vals) : vals[i].slug = art.slug
    THEN [i \in 1..Len(vals) |-> IF vals[i].slug = art.slug THEN art ELSE vals[i]]
    ELSE Append(vals, art)

RECURSIVE DictFrom(_, _)
DictFrom(vals, items) ==
    IF items = <<>> THEN vals
    ELSE DictFrom(DictSet(vals, Head(items)), Tail(items))

\* _save_articles_to_daily_cache: [ret, file]; the inner except names
\* json.JSONDecodeError and ValidationError only, so that an undecodable file
\* ends the call in the outer except, the file left as it was
save_articles_to_daily_cache(f, articles) ==
    LET existing_articles == IF f.kind # "absent" /\ ValidDay(f) THEN f.articles ELSE <<>>
        all_articles == DictFrom(DictFrom(<<>>, existing_articles), articles)
    IN  IF f.kind = "undecodable"
        THEN [ret |-> FALSE,
              file |-> [kind |-> f.kind, articles |-> f.articles,
                        total_count |-> f.total_count]]
        ELSE [ret |-> TRUE,
              file |-> [kind |-> "json", articles |-> all_articles,
                        total_count |-> Len(all_articles)]]

\* cache_file = articles_cache_dir / f"{today:%Y-%m-%d}.json", saved: [ret, files]
SaveToday(files, day, articles) ==
    LET saved == save_articles_to_daily_cache(FileAt(files, day), articles)
    IN  [ret |-> saved.ret,
         files |-> WriteFile(files, [day |-> day, kind |-> saved.file.kind,
                                     articles |-> saved.file.articles,
                                     total_count |-> saved.file.total_count])]

\* run_step2: [result, files], the Step2Result and the directory as the call
\* leaves it
run_step2(files, stray, day, tod, articles) ==
    LET cutoff_date == Now(day, tod) - DaysDelta(ArticleLookbackDays)
        loaded == load_cached_articles(files, stray, cutoff_date)
        r == DedupLoop(articles, SlugsOf(loaded.articles),
                       [unique |-> <<>>, duplicates |-> 0])
        saved == IF r.unique # <<>>
                 THEN SaveToday(files, day, r.unique)
                 ELSE [ret |-> FALSE, files |-> files]
    IN  [result |->
            [success |-> TRUE,
             unique_articles |-> r.unique,
             input_articles |-> Len(articles),
             cache_articles |-> Len(loaded.articles),
             duplicates_found |-> r.duplicates,
             \* deduplication_rate = duplicates / len(articles) if articles else 0.0
             rate_num |-> IF articles # <<>> THEN r.duplicates ELSE 0,
             rate_den |-> IF articles # <<>> THEN Len(articles) ELSE 1,
             cache_files_loaded |-> loaded.files_loaded,
             cache_files_corrupted |-> loaded.files_corrupted,
             cache_updated |-> saved.ret,
             \* cached_articles, as loaded (kept for the claims)
             cached_articles |-> loaded.articles],
         files |-> saved.files]

NoRun ==
    [called |-> FALSE, day |-> 0, tod |-> 0, input |-> <<>>, preFiles |-> {},
     preStray |-> FALSE, res |-> run_step2({}, FALSE, 0, 0, <<>>).result,
     repeat |-> FALSE]

NoSave == [called |-> FALSE, pre |-> NoFile, items |-> <<>>, ret |-> FALSE, post |-> NoFile]

\* the pipeline (or a test) calls run_step2 with a batch; the call takes
\* time, so that midnight has passed when it returns
RunStep2 ==
    /\ ops < MaxOps
    /\ \E batch \in Batches :
          LET res == run_step2(articleFiles, strayFile, nowDay, nowTod, batch) IN
          /\ articleFiles' = res.files
          /\ lastRun' = [called |-> TRUE, day |-> nowDay, tod |-> nowTod, input |-> batch,
                         preFiles |-> articleFiles, preStray |-> strayFile,
                         res |-> res.result,
                         \* the call repeats the one before it: the same batch on
                         \* the same day, the cache as that call left it
                         repeat |-> /\ lastRun.called
                                    /\ lastRun.day = nowDay
                                    /\ lastRun.input = batch]
          /\ runLog' = Append(runLog, [day |-> nowDay,
                                       unique |-> SlugsOf(res.result.unique_articles)])
          /\ lastSave' = IF res.result.unique_articles # <<>>
                         THEN [called |-> TRUE, pre |-> FileAt(articleFiles, nowDay),
                               items |-> res.result.unique_articles,
                               ret |-> res.result.cache_updated,
                               post |-> FileAt(res.files, nowDay)]
                         ELSE NoSave
    /\ ops' = ops + 1
    /\ nowTod' = TicksPerDay - 1
    /\ UNCHANGED <<nowDay, strayFile, advances, corrupted>>
    /\ UNCHANGED mergeVars
    /\ UNCHANGED lockVars
    /\ UNCHANGED pipeVars
    /\ UNCHANGED step0Vars
    /\ UNCHANGED pureVars

\* _save_articles_to_daily_cache called on today's file with any articles
SaveDirect ==
    /\ ops < MaxOps
    /\ \E items \in Batches :
          LET saved == SaveToday(articleFiles, nowDay, items) IN
          /\ articleFiles' = saved.files
          /\ lastSave' = [called |-> TRUE, pre |-> FileAt(articleFiles, nowDay),
                          items |-> items, ret |-> saved.ret,
                          post |-> FileAt(saved.files, nowDay)]
    /\ ops' = ops + 1
    /\ lastRun' = NoRun
    /\ lastCleanup' = NoCleanup
    /\ UNCHANGED <<nowDay, nowTod, strayFile, advances, corrupted>>
    /\ UNCHANGED <<entries, backups, created, backupClock>>
    /\ UNCHANGED lastStep0
    /\ UNCHANGED mergeVars
    /\ UNCHANGED lockVars
    /\ UNCHANGED pipeVars
    /\ UNCHANGED pureVars
    /\ UNCHANGED runLog

\* the environment: a shard file is damaged (truncated, overwritten)
CorruptFile ==
    /\ corrupted < MaxCorrupt
    /\ \E f \in articleFiles, kind \in CorruptKinds :
          /\ f.kind = "json"
          /\ articleFiles' = WriteFile(articleFiles, Garbage(f.day, kind))
    /\ corrupted' = corrupted + 1
    /\ lastRun' = NoRun
    /\ lastSave' = NoSave
    /\ UNCHANGED <<nowDay, nowTod, strayFile, ops, advances>>
    /\ UNCHANGED mergeVars
    /\ UNCHANGED lockVars
    /\ UNCHANGED pipeVars
    /\ UNCHANGED step0Vars
    /\ UNCHANGED pureVars
    /\ UNCHANGED runLog

\* the environment: a .json file whose name is no date appears in cache/articles
AddStrayFile ==
    /\ ~strayFile
    /\ strayFile' = TRUE
    /\ lastRun' = NoRun
    /\ lastSave' = NoSave
    /\ UNCHANGED <<nowDay, nowTod, articleFiles, ops, advances, corrupted>>
    /\ UNCHANGED mergeVars
    /\ UNCHANGED lockVars
    /\ UNCHANGED pipeVars
    /\ UNCHANGED step0Vars
    /\ UNCHANGED pureVars
    /\ UNCHANGED runLog

(***************************************************************************)
(* The entries and the cleanup of run_step0 (SpecCleanup)                  *)
(***************************************************************************)
\* cache_manager.save(key, data): the entry is written with cached_at = now
SaveEntry ==
    /\ ops < MaxOps
    /\ \E key \in PolicyKeys :
          entries' = [entries EXCEPT ![key] = [exists |-> TRUE, kind |-> "json",
                                              cached_at |-> Now(nowDay, nowTod)]]
    /\ ops' = ops + 1
    /\ lastCleanup' = NoCleanup
    /\ UNCHANGED <<nowDay, nowTod, advances, corrupted, backups, created, backupClock>>
    /\ lastStep0' = NoStep0
    /\ UNCHANGED dedupVars
    /\ UNCHANGED mergeVars
    /\ UNCHANGED lockVars
    /\ UNCHANGED pipeVars
    /\ UNCHANGED pureVars

\* the environment: an entry is damaged
CorruptEntry ==
    /\ corrupted < MaxCorrupt
    /\ \E key \in PolicyKeys :
          /\ entries[key].exists
          /\ entries[key].kind = "json"
          /\ entries' = [entries EXCEPT ![key].kind = "garbage"]
    /\ corrupted' = corrupted + 1
    /\ lastCleanup' = NoCleanup
    /\ UNCHANGED <<nowDay, nowTod, ops, advances, backups, created, backupClock>>
    /\ UNCHANGED lastStep0
    /\ UNCHANGED dedupVars
    /\ UNCHANGED mergeVars
    /\ UNCHANGED lockVars
    /\ UNCHANGED pipeVars
    /\ UNCHANGED pureVars

\* run_step0 with cleanup_on_start: initial_count, cache_manager.cleanup(
\* retention_policy), final_count, cache_cleaned
Cleanup ==
    /\ ops < MaxOps
    /\ LET cleaned == cleanup(entries, Now(nowDay, nowTod), RetentionPolicy) IN
          /\ entries' = cleaned
          /\ lastCleanup' = [called |-> TRUE, day |-> nowDay, tod |-> nowTod,
                             preEntries |-> entries, postEntries |-> cleaned,
                             preArticles |-> articleFiles, postArticles |-> articleFiles,
                             preNews |-> newsFiles, postNews |-> newsFiles,
                             cache_cleaned |-> Cardinality(list_all(entries))
                                                 - Cardinality(list_all(cleaned))]
    /\ ops' = ops + 1
    /\ UNCHANGED <<nowDay, nowTod, advances, corrupted, backups, created, backupClock>>
    /\ UNCHANGED lastStep0
    /\ UNCHANGED dedupVars
    /\ UNCHANGED mergeVars
    /\ UNCHANGED lockVars
    /\ UNCHANGED pipeVars
    /\ UNCHANGED pureVars

(***************************************************************************)
(* _backup_cache (SpecBackup)                                              *)
(*                                                                         *)
(* cache_backups/ is the set of the timestamps of its cache_backup_<...>   *)
(* directories; the names have a fixed width, so that sorted() orders them *)
(* by timestamp.                                                           *)
(***************************************************************************)
\* datetime.now().strftime("%Y%m%d_%H%M%S"): the instant, to the second
strftime(instant) == instant \div TicksPerSecond

\* sorted(backup_dir.glob("cache_backup_*"))[:-5]: all but the five last
OldBackups(bs) ==
    {b \in bs : Cardinality({c \in bs : c > b}) >= BackupsKept}

\* _backup_cache: copytree(cache_dir, backup_path, dirs_exist_ok=True), then
\* if len(backups) > 5: rmtree each of backups[:-5]
backup_cache(bs, instant) ==
    LET copied == bs \cup {strftime(instant)}
    IN  IF Cardinality(copied) > BackupsKept
        THEN copied \ OldBackups(copied)
        ELSE copied

\* the clock goes on
BackupTick ==
    /\ backupClock < MaxBackupClock
    /\ backupClock' = backupClock + 1
    /\ UNCHANGED <<entries, lastCleanup, backups, created>>
    /\ UNCHANGED lastStep0
    /\ UNCHANGED cacheVars
    /\ UNCHANGED lockVars
    /\ UNCHANGED pipeVars
    /\ UNCHANGED pureVars

\* run_step0 with backup_on_error calls _backup_cache(cache_manager), the
\* cache directory being there (run_step0 has just made sure of it)
CallBackup ==
    /\ Len(created) < MaxBackupCalls
    /\ backups' = backup_cache(backups, backupClock)
    /\ created' = Append(created, strftime(backupClock))
    /\ UNCHANGED <<entries, lastCleanup, backupClock>>
    /\ UNCHANGED lastStep0
    /\ UNCHANGED cacheVars
    /\ UNCHANGED lockVars
    /\ UNCHANGED pipeVars
    /\ UNCHANGED pureVars

(***************************************************************************)
(* run_step0 as one call (SpecStep0)                                       *)
(*                                                                         *)
(* The call is made by instance 1; the lock file may be that of another    *)
(* instance, which has acquired it and has not released it yet.            *)
(***************************************************************************)
\* SpecStep0: the clock goes far enough for a lock written at 0 to be stale
MaxStep0Time == StaleAfter + 2

\* SpecStep0: the days to the next run, enough for the shorter retention
Step0DaySteps == {NewsDays}

\* Step0Config: backup_on_error and cleanup_on_start
Step0Configs == [backup_on_error : BOOLEAN, cleanup_on_start : BOOLEAN]

\* what goes wrong during the call: verify_repo_permissions() False;
\* _backup_cache raising, before it has copied anything ("mkdir") or in
\* copytree with the directory made ("copytree"); the cleanup raising at
\* its first list_all(); an exception outside the two inner try blocks, at
\* cache_dir.mkdir ("mkdir") or at the last list_all() ("list_all")
Step0Faults ==
    [permissions : BOOLEAN, backup : {"none", "mkdir", "copytree"},
     cleanup : BOOLEAN, unexpected : {"none", "mkdir", "list_all"}]

\* the faults the call gets to with this configuration
Reached(config, faults) ==
    /\ faults.backup # "none" => config.backup_on_error /\ faults.unexpected # "mkdir"
    /\ faults.cleanup => config.cleanup_on_start /\ faults.unexpected # "mkdir"

\* a release at the end of the try block, which an exception would skip
ReleaseOnReturn(path, lf) == IF path = "exception" THEN lf ELSE release_lock_file(lf)

\* finally: release_lock_file(cache_manager.cache_dir), whatever the path
ReleaseOnExit(path, lf) == release_lock_file(lf)

\* if config.backup_on_error: try: _backup_cache(cache_manager) ... except:
\* [backups, cache_backed_up, copied, errors]
BackupStage(config, faults, bs, instant) ==
    IF ~config.backup_on_error
    THEN [backups |-> bs, cache_backed_up |-> FALSE, copied |-> FALSE, errors |-> <<>>]
    ELSE IF faults.backup = "none"
    THEN [backups |-> backup_cache(bs, instant), cache_backed_up |-> TRUE,
          copied |-> TRUE, errors |-> <<>>]
    ELSE [backups |-> IF faults.backup = "copytree" THEN bs \cup {strftime(instant)} ELSE bs,
          cache_backed_up |-> FALSE, copied |-> faults.backup = "copytree",
          errors |-> <<"Cache backup failed">>]

\* if config.cleanup_on_start: try: ... cache_manager.cleanup(retention_policy)
\* ... except: [entries, cache_cleaned, done, errors]
CleanupStage(config, faults, ents, now) ==
    IF ~config.cleanup_on_start
    THEN [entries |-> ents, cache_cleaned |-> 0, done |-> FALSE, errors |-> <<>>]
    ELSE IF faults.cleanup
    THEN [entries |-> ents, cache_cleaned |-> 0, done |-> FALSE,
          errors |-> <<"Cache cleanup failed">>]
    ELSE LET cleaned == cleanup(ents, now, RetentionPolicy)
         IN  [entries |-> cleaned,
              cache_cleaned |-> Cardinality(list_all(ents)) - Cardinality(list_all(cleaned)),
              done |-> TRUE, errors |-> <<>>]

\* run_step0 run without interruption: [result, path, acquired, lock,
\* entries, backups, copied, cleanup_done]
run_step0(lf, t, who, ents, now, bs, instant, config, faults) ==
    LET acq == acquire_lock_file(lf, t, who) IN
    IF ~acq.ret
    THEN [result |-> Step0Result(FALSE, 0, FALSE, <<"Failed to acquire lock file">>),
          path |-> "lock_held", acquired |-> FALSE,
          lock |-> ReleaseOnExit("lock_held", acq.lock),
          entries |-> ents, backups |-> bs, copied |-> FALSE, cleanup_done |-> FALSE]
    ELSE IF faults.unexpected = "mkdir"
    THEN [result |-> Step0Result(FALSE, 0, FALSE, <<"Critical failure">>),
          path |-> "exception", acquired |-> TRUE,
          lock |-> ReleaseOnExit("exception", acq.lock),
          entries |-> ents, backups |-> bs, copied |-> FALSE, cleanup_done |-> FALSE]
    ELSE
        LET perm == IF faults.permissions
                    THEN <<"Repository write permissions check failed">> ELSE <<>>
            b == BackupStage(config, faults, bs, instant)
            c == CleanupStage(config, faults, ents, now)
            errors == perm \o b.errors \o c.errors
            path == IF faults.unexpected = "list_all" THEN "exception"
                    ELSE IF Len(errors) = 0 THEN "success" ELSE "recoverable"
        IN  [result |-> IF path = "exception"
                        THEN Step0Result(FALSE, c.cache_cleaned, b.cache_backed_up,
                                         <<"Critical failure">>)
                        ELSE Step0Result(Len(errors) = 0, c.cache_cleaned,
                                         b.cache_backed_up, errors),
             path |-> path, acquired |-> TRUE,
             lock |-> ReleaseOnExit(path, acq.lock),
             entries |-> c.entries, backups |-> b.backups, copied |-> b.copied,
             cleanup_done |-> c.done]

\* run_pipeline after run_step0: if not result0.success: raise CriticalError,
\* and Step 1 otherwise
ContinuesToStep1(result0) == result0.success

\* run_pipeline of instance 1 calls run_step0
RunStep0 ==
    /\ ops < MaxStep0Ops
    /\ \E config \in Step0Configs, faults \in Step0Faults :
          /\ Reached(config, faults)
          /\ LET now == Now(nowDay, nowTod)
                 r == run_step0(lockFile, time, 1, entries, now, backups, backupClock,
                                config, faults)
             IN  /\ lockFile' = r.lock
                 /\ entries' = r.entries
                 /\ backups' = r.backups
                 /\ created' = IF r.copied THEN Append(created, strftime(backupClock))
                               ELSE created
                 /\ lastStep0' = [called |-> TRUE, config |-> config, faults |-> faults,
                                  t |-> time, now |-> now,
                                  preLock |-> lockFile, postLock |-> r.lock,
                                  preEntries |-> entries, postEntries |-> r.entries,
                                  preBackups |-> backups, postBackups |-> r.backups,
                                  result |-> r.result, path |-> r.path,
                                  acquired |-> r.acquired, cleanup_done |-> r.cleanup_done,
                                  continues |-> ContinuesToStep1(r.result)]
    /\ ops' = ops + 1
    /\ lastCleanup' = NoCleanup
    /\ UNCHANGED <<time, calls, backupClock>>
    /\ UNCHANGED <<nowDay, nowTod, advances, corrupted>>
    /\ UNCHANGED dedupVars
    /\ UNCHANGED mergeVars
    /\ UNCHANGED pipeVars
    /\ UNCHANGED pureVars

\* another instance is in its run_step0: its acquire_lock_file returned True
OtherAcquires ==
    /\ LET acq == acquire_lock_file(lockFile, time, 2) IN
          /\ acq.ret
          /\ lockFile' = acq.lock
    /\ UNCHANGED <<time, calls>>
    /\ UNCHANGED pipeVars
    /\ UNCHANGED cacheVars
    /\ lastStep0' = NoStep0
    /\ UNCHANGED <<entries, lastCleanup, backups, created, backupClock>>
    /\ UNCHANGED pureVars

\* the other instance's run_step0 gets to its finally
OtherReleases ==
    /\ lockFile.exists
    /\ lockFile.owner = 2
    /\ lockFile' = release_lock_file(lockFile)
    /\ UNCHANGED <<time, calls>>
    /\ UNCHANGED pipeVars
    /\ UNCHANGED cacheVars
    /\ lastStep0' = NoStep0
    /\ UNCHANGED <<entries, lastCleanup, backups, created, backupClock>>
    /\ UNCHANGED pureVars

(***************************************************************************)
(* The cluster cache and run_step4 (src/steps/step4_multi_dedup.py)        *)
(*                                                                         *)
(* A NewsCluster is [news_id, title, article_slugs, article_count,         *)
(* keywords, updated]: title stands for the fields a merge copies from its *)
(* base together (title, summary, main_topic, created_at), updated for     *)
(* updated_at being set.  article_slugs and keywords are sets, the order   *)
(* of list(set(...)) being what the interpreter makes of it.               *)
(***************************************************************************)
Cluster(id, slugs, kws) ==
    [news_id |-> id, title |-> id, article_slugs |-> slugs,
     article_count |-> Cardinality(slugs), keywords |-> kws, updated |-> FALSE]

\* the clusters Step 3 hands over: of one article, of three, and of one
\* article that the second holds too
Clusters ==
    {Cluster("n1", {"a"}, {"k1"}),
     Cluster("n2", {"b", "c", "d"}, {"k2"}),
     Cluster("n3", {"b"}, {"k1", "k3"})}

\* today_news: clusters of one Step 3 run, no cluster twice
NewsBatches ==
    {b \in SeqsUpTo(Clusters, MaxNews) :
        \A i \in 1..Len(b) : \A j \in 1..Len(b) : b[i] = b[j] => i = j}

\* .get() of a key the map does not hold
NoCluster ==
    [news_id |-> "", title |-> "", article_slugs |-> {}, article_count |-> 0,
     keywords |-> {}, updated |-> FALSE]

NewsIds(news) == {news[i].news_id : i \in 1..Len(news)}

\* an id that names no cluster
UnknownId == "none"

\* a lookup that falls back on the first cluster for a key the map does not
\* hold
MapGetOrFirst(news, id) ==
    IF id \in NewsIds(news)
    THEN news[CHOOSE i \in 1..Len(news) :
                 /\ news[i].news_id = id
                 /\ \A j \in (i + 1)..Len(news) : news[j].news_id # id]
    ELSE IF news # <<>> THEN news[1]
    ELSE NoCluster

\* {news.news_id: news for news in ...}.get(id): the last cluster of the id
MapGet(news, id) ==
    IF id \in NewsIds(news)
    THEN news[CHOOSE i \in 1..Len(news) :
                 /\ news[i].news_id = id
                 /\ \A j \in (i + 1)..Len(news) : news[j].news_id # id]
    ELSE NoCluster

\* always the today cluster as base
PickBaseToday(today_item, cached_item) == today_item

\* if today_item.article_count >= cached_item.article_count: base = today_item
PickBase(today_item, cached_item) ==
    IF today_item.article_count >= cached_item.article_count
    THEN today_item
    ELSE cached_item

\* list(set(base.keywords + to_merge.keywords)) with no [:10]
TruncationsNone(kws) == {kws}

\* list(set(base.keywords + to_merge.keywords))[:10]: all of them, or any ten
Truncations(kws) ==
    IF Cardinality(kws) <= KeywordLimit
    THEN {kws}
    ELSE {k \in SUBSET kws : Cardinality(k) = KeywordLimit}

\* updated_news = NewsCluster(news_id=base.news_id, ...)
UpdatedNews(base, to_merge, kws) ==
    LET merged_slugs == base.article_slugs \cup to_merge.article_slugs
    IN  [news_id |-> base.news_id,
         title |-> base.title,
         article_slugs |-> merged_slugs,
         article_count |-> Cardinality(merged_slugs),
         keywords |-> kws,
         updated |-> TRUE]

\* for i, news in enumerate(result_news): if news.news_id == id:
\*     result_news[i] = updated_news; break
ReplaceFirst(result_news, id, updated_news) ==
    IF id \in NewsIds(result_news)
    THEN LET i == CHOOSE k \in 1..Len(result_news) :
                     /\ result_news[k].news_id = id
                     /\ \A j \in 1..(k - 1) : result_news[j].news_id # id
         IN  [result_news EXCEPT ![i] = updated_news]
    ELSE result_news

\* [n for n in result_news if n.news_id != id]
WithoutId(result_news, id) == SelectSeq(result_news, LAMBDA n : n.news_id # id)

\* if base == cached_item: the models compare equal when all their fields
\* do.  A base taken from the cache is the cached cluster.  A base taken from
\* today's list equals the cached cluster only if the two agree in every
\* field, summary and created_at among them: with the fields carried here
\* equal, those two decide, either way
BaseEqualsCached(base, today_item, cached_item) ==
    IF base # cached_item THEN {FALSE}
    ELSE IF today_item = cached_item THEN BOOLEAN
    ELSE {TRUE}

\* the loop of _merge_duplicate_news over duplicate_pairs: the set of the
\* [result_news, merged_today_ids, updates] it can end with, `updates` being
\* the updated_news built (and logged as "Merged news") for the pairs so far,
\* each with what base == cached_item gave
RECURSIVE MergeLoop(_, _, _, _, _, _)
MergeLoop(today_news, cached_news, pairs, result_news, merged_today_ids, updates) ==
    IF pairs = <<>>
    THEN {[result_news |-> result_news, merged_today_ids |-> merged_today_ids,
           updates |-> updates]}
    ELSE LET pair == Head(pairs)
             today_item == MapGet(today_news, pair.news_today_id)
             cached_item == MapGet(cached_news, pair.news_cached_id)
         IN  IF today_item = NoCluster \/ cached_item = NoCluster
             THEN MergeLoop(today_news, cached_news, Tail(pairs),
                            result_news, merged_today_ids, updates)
             ELSE LET base == PickBase(today_item, cached_item)
                      to_merge == IF today_item.article_count >= cached_item.article_count
                                  THEN cached_item
                                  ELSE today_item
                  IN  UNION {
                        LET updated_news == UpdatedNews(base, to_merge, kws)
                        IN  MergeLoop(today_news, cached_news, Tail(pairs),
                                      IF eq
                                      THEN ReplaceFirst(result_news, cached_item.news_id,
                                                        updated_news)
                                      ELSE Append(WithoutId(result_news,
                                                            cached_item.news_id),
                                                  updated_news),
                                      merged_today_ids \cup {pair.news_today_id},
                                      Append(updates, [pair |-> pair,
                                                       updated_news |-> updated_news,
                                                       base_is_cached |-> eq]))
                        : kws \in Truncations(base.keywords \cup to_merge.keywords),
                          eq \in BaseEqualsCached(base, today_item, cached_item)}

\* _merge_duplicate_news appending every today cluster, merged or not
merge_duplicate_news_all_today(today_news, cached_news, duplicate_pairs) ==
    {[news |-> r.result_news \o today_news, updates |-> r.updates]
     : r \in MergeLoop(today_news, cached_news, duplicate_pairs, cached_news, {}, <<>>)}

\* _merge_duplicate_news: the set of the [news, updates] it can end with,
\* `news` being the list it returns
merge_duplicate_news(today_news, cached_news, duplicate_pairs) ==
    {[news |-> r.result_news \o
                  SelectSeq(today_news, LAMBDA n : n.news_id \notin r.merged_today_ids),
      updates |-> r.updates]
     : r \in MergeLoop(today_news, cached_news, duplicate_pairs, cached_news, {}, <<>>)}

\* the loop of _load_cached_news over sorted(glob("*.json")): a file older
\* than the cutoff is skipped, and so is one that cache_manager.load cannot
\* read (None) or that holds no cluster
RECURSIVE LoadNewsFrom(_, _, _)
LoadNewsFrom(files, cutoff, all_cached_news) ==
    IF files = {} THEN all_cached_news
    ELSE LET f == CHOOSE g \in files : \A h \in files : g.day <= h.day
             rest == files \ {f}
         IN  IF TooOld(f.day, cutoff) \/ f.kind # "json"
             THEN LoadNewsFrom(rest, cutoff, all_cached_news)
             ELSE LoadNewsFrom(rest, cutoff, all_cached_news \o f.news)

\* _load_cached_news
load_cached_news(files, day, tod, lookback_days) ==
    LoadNewsFrom(files, Now(day, tod) - DaysDelta(lookback_days), <<>>)

\* _save_news_to_cache: cache_manager.save(f"news/news_{today_str}", news)
save_news_to_cache(files, day, news) ==
    {g \in files : g.day # day} \cup {[day |-> day, kind |-> "json", news |-> news]}

Step4Result(success, unique_news, before, dups, merged, n_calls, n_fail, errs, fb) ==
    [success |-> success,
     unique_news |-> unique_news,
     news_before_dedup |-> before,
     news_after_dedup |-> Len(unique_news),
     duplicates_found |-> dups,
     news_merged |-> merged,
     api_calls |-> n_calls,
     api_failures |-> n_fail,
     errors |-> errs,
     fallback_used |-> fb]

\* run_step4: the set of the [result, files, updates] the call can end with
\* (`updates` as in MergeLoop); `api` is
\* "nokey" without an API key, "error" when _call_gemini_deduplication raises
\* after its retries, and "ok" when it returns duplicate_pairs
run_step4(files, day, tod, config, today_news, api, duplicate_pairs) ==
    LET cached_news == load_cached_news(files, day, tod, config.lookback_days)
        n == Len(today_news)
        saved_today == save_news_to_cache(files, day, today_news)
    IN  IF ~config.enabled
        THEN {[result |-> Step4Result(TRUE, today_news, n, 0, 0, 0, 0, 0, FALSE),
               files |-> files, updates |-> <<>>]}
        ELSE IF today_news = <<>>
        THEN {[result |-> Step4Result(TRUE, <<>>, 0, 0, 0, 0, 0, 0, FALSE),
               files |-> files, updates |-> <<>>]}
        ELSE IF cached_news = <<>>
        THEN {[result |-> Step4Result(TRUE, today_news, n, 0, 0, 0, 0, 0, FALSE),
               files |-> saved_today, updates |-> <<>>]}
        ELSE IF api = "nokey"
        THEN IF config.fallback_to_no_merge
             THEN {[result |-> Step4Result(TRUE, today_news, n, 0, 0, 0, 0, 1, TRUE),
                    files |-> saved_today, updates |-> <<>>]}
             ELSE {[result |-> Step4Result(FALSE, <<>>, n, 0, 0, 0, 0, 1, FALSE),
                    files |-> files, updates |-> <<>>]}
        ELSE IF api = "error"
        THEN IF config.fallback_to_no_merge
             THEN {[result |-> Step4Result(TRUE, today_news, n, 0, 0, 0, 1, 1, TRUE),
                    files |-> saved_today, updates |-> <<>>]}
             ELSE {[result |-> Step4Result(FALSE, <<>>, n, 0, 0, 0, 1, 1, FALSE),
                    files |-> files, updates |-> <<>>]}
        ELSE {[result |-> Step4Result(TRUE, merged.news, n,
                                      \* duplicates_found = len(duplicate_pairs)
                                      Len(duplicate_pairs),
                                      \* news_merged = duplicates_found
                                      Len(duplicate_pairs),
                                      1, 0, 0, FALSE),
               files |-> save_news_to_cache(files, day, merged.news),
               updates |-> merged.updates]
              : merged \in merge_duplicate_news(today_news, cached_news,
                                                duplicate_pairs)}

Step4Configs ==
    [enabled : BOOLEAN, lookback_days : {NewsLookbackDays},
     fallback_to_no_merge : BOOLEAN]

\* the pairs the API can name for these clusters: every id of today's list or
\* none of them, with every id of the cached list or none of them
PairsFor(today_news, cached_news) ==
    [news_today_id : NewsIds(today_news) \cup {UnknownId},
     news_cached_id : NewsIds(cached_news) \cup {UnknownId}]

NoStep4 ==
    [called |-> FALSE, day |-> 0, tod |-> 0, config |-> <<>>, today_news |-> <<>>,
     api |-> "", pairs |-> <<>>, preFiles |-> {}, cached_news |-> <<>>,
     updates |-> <<>>, repeat |-> FALSE,
     res |-> Step4Result(FALSE, <<>>, 0, 0, 0, 0, 0, 0, FALSE)]

\* the pipeline (or a test) calls run_step4; the API returns pairs only when
\* it is called, that is with the step enabled, clusters today and in the
\* cache, and a key
RunStep4 ==
    /\ ops < MaxMergeRuns
    /\ \E config \in Step4Configs, today_news \in NewsBatches,
          api \in {"nokey", "error", "ok"} :
          LET cached_news ==
                  load_cached_news(newsFiles, nowDay, nowTod, config.lookback_days)
              asked == /\ config.enabled
                       /\ today_news # <<>>
                       /\ cached_news # <<>>
                       /\ api = "ok"
          IN  \E pairs \in (IF asked
                            THEN SeqsUpTo(PairsFor(today_news, cached_news), MaxPairs)
                            ELSE {<<>>}) :
              \E out \in run_step4(newsFiles, nowDay, nowTod, config, today_news,
                                   api, pairs) :
                  /\ newsFiles' = out.files
                  /\ lastStep4' = [called |-> TRUE, day |-> nowDay, tod |-> nowTod,
                                   config |-> config, today_news |-> today_news,
                                   api |-> api, pairs |-> pairs,
                                   preFiles |-> newsFiles,
                                   cached_news |-> cached_news,
                                   updates |-> out.updates,
                                   \* the call before, on the same day, was
                                   \* given the same clusters and pairs
                                   repeat |-> /\ lastStep4.called
                                              /\ lastStep4.day = nowDay
                                              /\ lastStep4.config = config
                                              /\ lastStep4.today_news = today_news
                                              /\ lastStep4.pairs = pairs,
                                   res |-> out.result]
    /\ ops' = ops + 1
    /\ nowTod' = TicksPerDay - 1
    /\ UNCHANGED <<nowDay, advances, corrupted, lastMerge>>
    /\ UNCHANGED dedupVars
    /\ UNCHANGED lockVars
    /\ UNCHANGED pipeVars
    /\ UNCHANGED step0Vars
    /\ UNCHANGED pureVars

\* the environment: a cluster shard is damaged
CorruptNewsFile ==
    /\ corrupted < MaxCorrupt
    /\ \E f \in newsFiles :
          /\ f.kind = "json"
          /\ newsFiles' = (newsFiles \ {f}) \cup {[day |-> f.day, kind |-> "garbage",
                                                    news |-> <<>>]}
    /\ corrupted' = corrupted + 1
    /\ lastStep4' = NoStep4
    /\ UNCHANGED <<nowDay, nowTod, ops, advances, lastMerge>>
    /\ UNCHANGED dedupVars
    /\ UNCHANGED lockVars
    /\ UNCHANGED pipeVars
    /\ UNCHANGED step0Vars
    /\ UNCHANGED pureVars

\* days pass: the next call is made `k` days later, at midnight or after it
AdvanceDay(steps) ==
    /\ advances < MaxAdvances
    /\ \E k \in steps : nowDay' = nowDay + k
    /\ nowTod' \in {0, TicksPerDay - 1}
    /\ advances' = advances + 1
    /\ lastRun' = NoRun
    /\ lastSave' = NoSave
    /\ lastStep4' = NoStep4
    /\ lastCleanup' = NoCleanup
    /\ UNCHANGED <<articleFiles, strayFile, newsFiles, ops, corrupted, lastMerge>>
    /\ UNCHANGED <<entries, backups, created, backupClock>>
    /\ lastStep0' = NoStep0
    /\ UNCHANGED lockVars
    /\ UNCHANGED pipeVars
    /\ UNCHANGED pureVars
    /\ UNCHANGED runLog

(***************************************************************************)
(* The steps with the write of today's shard failing (SpecPersist)         *)
(*                                                                         *)
(* write_text raises (disk full, permission denied): the file is left as   *)
(* it was, or cut short when the failure comes after it was opened.        *)
(***************************************************************************)
NoPersist == [step |-> "", write_failed |-> FALSE, success |-> FALSE, items |-> 0]

\* today's file after a write_text that raised
FailedWrites(f, d) == {f, Garbage(d, "garbage")}

\* run_step2 with cache_file.write_text raising in
\* _save_articles_to_daily_cache: the except of the function returns False,
\* and run_step2 goes on with cache_updated = False
RunStep2WriteFails ==
    /\ ops < MaxOps
    /\ \E batch \in Batches :
          LET res == run_step2(articleFiles, strayFile, nowDay, nowTod, batch)
              pre == FileAt(articleFiles, nowDay)
          IN  /\ res.result.unique_articles # <<>>
              /\ pre.kind # "undecodable"
              /\ \E post \in FailedWrites(pre, nowDay) :
                    /\ articleFiles' = IF post.kind = "absent" THEN articleFiles
                                       ELSE WriteFile(articleFiles, post)
                    /\ lastSave' = [called |-> TRUE, pre |-> pre,
                                    items |-> res.result.unique_articles,
                                    ret |-> FALSE, post |-> post]
              /\ lastRun' = [called |-> TRUE, day |-> nowDay, tod |-> nowTod,
                             input |-> batch, preFiles |-> articleFiles,
                             preStray |-> strayFile,
                             res |-> [res.result EXCEPT !.cache_updated = FALSE],
                             repeat |-> /\ lastRun.called
                                        /\ lastRun.day = nowDay
                                        /\ lastRun.input = batch]
              /\ runLog' = Append(runLog, [day |-> nowDay,
                                           unique |-> SlugsOf(res.result.unique_articles)])
              /\ lastPersist' = [step |-> "run_step2", write_failed |-> TRUE,
                                 success |-> res.result.success,
                                 items |-> Len(res.result.unique_articles)]
    /\ ops' = ops + 1
    /\ nowTod' = TicksPerDay - 1
    /\ UNCHANGED <<nowDay, strayFile, advances, corrupted>>
    /\ UNCHANGED <<slugCall, idCalls>>
    /\ UNCHANGED mergeVars
    /\ UNCHANGED lockVars
    /\ UNCHANGED pipeVars
    /\ UNCHANGED step0Vars

\* run_step4 gets to a _save_news_to_cache call: the step is enabled, there
\* are clusters today, and without the API's pairs the fallback is on
SavesNews(config, today_news, cached_news, api) ==
    /\ config.enabled
    /\ today_news # <<>>
    /\ (cached_news # <<>> /\ api \in {"nokey", "error"}) => config.fallback_to_no_merge

\* except Exception as e: the Step4Result of "Step 4 failed critically"
step4_critical(today_news) ==
    Step4Result(FALSE, <<>>, Len(today_news), 0, 0, 0, 0, 1, FALSE)

\* run_step4 with cache_manager.save raising in _save_news_to_cache: save
\* logs and raises again, and the exception ends in the outer except of
\* run_step4
RunStep4WriteFails ==
    /\ ops < MaxMergeRuns
    /\ \E config \in Step4Configs, today_news \in NewsBatches,
          api \in {"nokey", "error", "ok"} :
          LET cached_news ==
                  load_cached_news(newsFiles, nowDay, nowTod, config.lookback_days)
              pre == IF \E f \in newsFiles : f.day = nowDay
                     THEN CHOOSE f \in newsFiles : f.day = nowDay
                     ELSE [day |-> nowDay, kind |-> "absent", news |-> <<>>]
          IN  /\ SavesNews(config, today_news, cached_news, api)
              /\ \E cut \in BOOLEAN :
                    newsFiles' = IF cut
                                 THEN {g \in newsFiles : g.day # nowDay}
                                      \cup {[day |-> nowDay, kind |-> "garbage",
                                             news |-> <<>>]}
                                 ELSE newsFiles
              /\ lastStep4' = [called |-> TRUE, day |-> nowDay, tod |-> nowTod,
                               config |-> config, today_news |-> today_news,
                               api |-> api, pairs |-> <<>>, preFiles |-> newsFiles,
                               cached_news |-> cached_news, updates |-> <<>>,
                               repeat |-> FALSE,
                               res |-> step4_critical(today_news)]
              /\ lastPersist' = [step |-> "run_step4", write_failed |-> TRUE,
                                 success |-> step4_critical(today_news).success,
                                 items |-> Len(today_news)]
    /\ ops' = ops + 1
    /\ nowTod' = TicksPerDay - 1
    /\ UNCHANGED <<nowDay, advances, corrupted, lastMerge>>
    /\ UNCHANGED <<slugCall, idCalls>>
    /\ UNCHANGED dedupVars
    /\ UNCHANGED lockVars
    /\ UNCHANGED pipeVars
    /\ UNCHANGED step0Vars

(***************************************************************************)
(* _merge_duplicate_news called on its own (SpecMergeCall)                 *)
(***************************************************************************)
\* clusters with numbered keywords: the second has nine and the third two,
\* one of them its own, so that the second and the third have eleven between
\* them; the fourth is the first as an earlier merge left it in the cache
MergeClusters ==
    {Cluster("n1", {"a"}, {1}),
     Cluster("n2", {"b", "c", "d"}, 2..KeywordLimit),
     Cluster("n3", {"b"}, {1, KeywordLimit + 1}),
     [Cluster("n1", {"a", "e"}, {1}) EXCEPT !.updated = TRUE]}

\* today_news: the clusters Step 3 made, at least one (run_step4 returns
\* before the merge otherwise), no id twice
MergeTodayLists ==
    {b \in SeqsUpTo({c \in MergeClusters : ~c.updated}, MaxNews) :
        /\ b # <<>>
        /\ \A i \in 1..Len(b) : \A j \in 1..Len(b) :
              b[i].news_id = b[j].news_id => i = j}

\* cached_news: what the shards of the last days hold, at least one cluster;
\* a cluster may be in more than one shard
MergeCachedLists == SeqsUpTo(MergeClusters, MaxNews) \ {<<>>}

NoMerge ==
    [called |-> FALSE, today_news |-> <<>>, cached_news |-> <<>>, pairs |-> <<>>,
     news |-> <<>>, updates |-> <<>>]

\* unique_news = _merge_duplicate_news(today_news, cached_news, duplicate_pairs)
CallMerge ==
    /\ ~lastMerge.called
    /\ \E today_news \in MergeTodayLists, cached_news \in MergeCachedLists :
          \E pairs \in SeqsUpTo(PairsFor(today_news, cached_news), MaxPairs) :
              \E out \in merge_duplicate_news(today_news, cached_news, pairs) :
                  lastMerge' = [called |-> TRUE, today_news |-> today_news,
                                cached_news |-> cached_news, pairs |-> pairs,
                                news |-> out.news, updates |-> out.updates]
    /\ UNCHANGED <<nowDay, nowTod, ops, advances, corrupted, newsFiles, lastStep4>>
    /\ UNCHANGED dedupVars
    /\ UNCHANGED lockVars
    /\ UNCHANGED pipeVars
    /\ UNCHANGED step0Vars
    /\ UNCHANGED pureVars

(***************************************************************************)
(* generate_slug (src/steps/step1_ingestion.py) (SpecSlug)                 *)
(*                                                                         *)
(* A title is [text, padded]: text is title.strip(), padded whether the    *)
(* title had whitespace around it.  A slug is [base, n]: n = 0 is the      *)
(* base slug f"{word_part}-{hash_hex}", both parts computed from the       *)
(* stripped title, and n > 0 is f"{base_slug}_{n}".                        *)
(***************************************************************************)
SlugTitles == [text : {"t1", "t2"}, padded : BOOLEAN]

\* word_part and hash_hex, both of the stripped title
base_slug(title) == title.text

\* base_slug for counter 0, f"{base_slug}_{counter}" otherwise
Variant(base, counter) == [base |-> base, n |-> counter]

NoSlug == [base |-> "", n |-> 0]

\* a test that lets ten collisions through
TooManyCollisionsGT(counter) == counter > SlugTries

\* if counter >= 10: raise ValueError
TooManyCollisions(counter) == counter >= SlugTries

\* while slug in existing_slugs: ...; return slug
RECURSIVE SlugLoop(_, _, _, _)
SlugLoop(base, existing_slugs, slug, counter) ==
    IF slug \in existing_slugs
    THEN IF TooManyCollisions(counter)
         THEN [ok |-> FALSE, slug |-> NoSlug]
         ELSE SlugLoop(base, existing_slugs, Variant(base, counter), counter + 1)
    ELSE [ok |-> TRUE, slug |-> slug]

\* generate_slug: [ok, slug], ok = FALSE being the ValueError
generate_slug(title, existing_slugs) ==
    SlugLoop(base_slug(title), existing_slugs, Variant(base_slug(title), 0), 1)

\* the sets of slugs a call is given: any of the variants of "t1" up to
\* _10, with or without the base slug of "t2"
ExistingSets ==
    {{Variant("t1", k) : k \in S} \cup other :
        S \in SUBSET (0..SlugTries), other \in {{}, {Variant("t2", 0)}}}

NoSlugCall ==
    [called |-> FALSE, n |-> 0, title |-> [text |-> "", padded |-> FALSE],
     existing_slugs |-> {}, res |-> [ok |-> TRUE, slug |-> NoSlug]]

\* generate_slug(title, existing_slugs) called with a set of slugs
CallGenerateSlug ==
    /\ ~slugCall.called
    /\ \E title \in SlugTitles, existing_slugs \in ExistingSets :
          slugCall' = [called |-> TRUE, n |-> 1, title |-> title,
                       existing_slugs |-> existing_slugs,
                       res |-> generate_slug(title, existing_slugs)]
    /\ UNCHANGED idCalls
    /\ UNCHANGED lockVars
    /\ UNCHANGED pipeVars
    /\ UNCHANGED cacheVars
    /\ UNCHANGED step0Vars
    /\ UNCHANGED lastPersist

\* the loop of run_step1: existing_slugs.add(slug) unless generate_slug
\* raised, then generate_slug for the next article
IngestNext ==
    /\ slugCall.called
    /\ slugCall.n < MaxSlugCalls
    /\ LET existing_slugs == IF slugCall.res.ok
                             THEN slugCall.existing_slugs \cup {slugCall.res.slug}
                             ELSE slugCall.existing_slugs
       IN  \E title \in SlugTitles :
              slugCall' = [called |-> TRUE, n |-> slugCall.n + 1, title |-> title,
                           existing_slugs |-> existing_slugs,
                           res |-> generate_slug(title, existing_slugs)]
    /\ UNCHANGED idCalls
    /\ UNCHANGED lockVars
    /\ UNCHANGED pipeVars
    /\ UNCHANGED cacheVars
    /\ UNCHANGED step0Vars
    /\ UNCHANGED lastPersist

(***************************************************************************)
(* _generate_news_id (src/steps/step3_clustering.py) (SpecNewsId)          *)
(*                                                                         *)
(* A string is the sequence of the codes of its characters, compared as    *)
(* Python compares str.  The first 12 hex digits of the SHA-256 are a      *)
(* function of the content with fewer values than there are contents: a    *)
(* checksum of the codes weighted by their positions.                      *)
(***************************************************************************)
IdTitles == {<<1>>, <<2>>}

IdSlugs == {<<1>>, <<2>>, <<1, 2>>}

\* ":" and "|"
Colon == 8

Bar == 9

\* the values of hexdigest()[:12]
HashSpace == 4096

\* s < t for two str
RECURSIVE StrLess(_, _)
StrLess(s, t) ==
    IF s = <<>> THEN t # <<>>
    ELSE IF t = <<>> THEN FALSE
    ELSE IF Head(s) < Head(t) THEN TRUE
    ELSE IF Head(s) > Head(t) THEN FALSE
    ELSE StrLess(Tail(s), Tail(t))

\* x put into a sorted list at its place
RECURSIVE InsertSorted(_, _)
InsertSorted(list, x) ==
    IF list = <<>> THEN <<x>>
    ELSE IF StrLess(x, Head(list)) THEN <<x>> \o list
    ELSE <<Head(list)>> \o InsertSorted(Tail(list), x)

\* the list as it is
unsorted(list) == list

\* sorted(article_slugs)
RECURSIVE sorted(_)
sorted(list) ==
    IF list = <<>> THEN <<>>
    ELSE InsertSorted(sorted(Tail(list)), Head(list))

\* '|'.join(...)
RECURSIVE join(_, _)
join(sep, list) ==
    IF list = <<>> THEN <<>>
    ELSE IF Len(list) = 1 THEN Head(list)
    ELSE Head(list) \o <<sep>> \o join(sep, Tail(list))

\* hashlib.sha256(content.encode("utf-8")).hexdigest()[:12]
RECURSIVE sha256_12(_, _)
sha256_12(content, k) ==
    IF content = <<>> THEN 0
    ELSE (k * Head(content) + 31 * sha256_12(Tail(content), k + 1)) % HashSpace

\* _generate_news_id: f"news-{hash_hex}" of f"{title}:{'|'.join(sorted(article_slugs))}"
generate_news_id(title, article_slugs) ==
    [prefix |-> "news-",
     hash_hex |-> sha256_12(title \o <<Colon>> \o join(Bar, sorted(article_slugs)), 1)]

\* the lists of slugs a call is given
IdSlugLists == SeqsUpTo(IdSlugs, MaxIdSlugs)

\* _generate_news_id(title, article_slugs) is called
CallGenerateNewsId ==
    /\ Len(idCalls) < MaxIdCalls
    /\ \E title \in IdTitles, article_slugs \in IdSlugLists :
          idCalls' = Append(idCalls, [title |-> title, article_slugs |-> article_slugs,
                                      news_id |-> generate_news_id(title, article_slugs)])
    /\ UNCHANGED slugCall
    /\ UNCHANGED lockVars
    /\ UNCHANGED pipeVars
    /\ UNCHANGED cacheVars
    /\ UNCHANGED step0Vars
    /\ UNCHANGED lastPersist

(***************************************************************************)
(* Specifications                                                          *)
(***************************************************************************)
Init ==
    /\ time = 0
    /\ lockFile = NoLock
    /\ calls = <<>>
    /\ pc = [p \in Instances |-> "idle"]
    /\ step0ok = [p \in Instances |-> TRUE]
    /\ acqTime = [p \in Instances |-> -1]
    /\ sawLater = [p \in Instances |-> {}]
    /\ nowDay = 0
    /\ nowTod \in {0, TicksPerDay - 1}
    /\ articleFiles = {}
    /\ strayFile = FALSE
    /\ ops = 0
    /\ advances = 0
    /\ corrupted = 0
    /\ lastRun = NoRun
    /\ lastSave = NoSave
    /\ newsFiles = {}
    /\ lastStep4 = NoStep4
    /\ lastMerge = NoMerge
    /\ entries = [key \in PolicyKeys |-> NoEntry]
    /\ lastCleanup = NoCleanup
    /\ backups = {}
    /\ created = <<>>
    /\ backupClock = 0
    /\ lastStep0 = NoStep0
    /\ slugCall = NoSlugCall
    /\ idCalls = <<>>
    /\ runLog = <<>>
    /\ lastPersist = NoPersist

NextLock ==
    \/ Tick
    \/ CallAcquire
    \/ CallRelease

NextPipeline ==
    \/ Tick
    \/ \E p \in Instances : StartPipeline(p)
    \/ \E p \in Instances : AcqExists(p)
    \/ \E p \in Instances : AcqStat(p)
    \/ \E p \in Instances : AcqUnlink(p)
    \/ \E p \in Instances : AcqWrite(p)
    \/ \E p \in Instances : Step0Body(p)
    \/ \E p \in Instances : Step0Finally(p)
    \/ \E p \in Instances : LaterSteps(p)

NextDedup ==
    \/ RunStep2
    \/ CorruptFile
    \/ AddStrayFile
    \/ AdvanceDay(ArticleDaySteps)

NextMerge ==
    \/ RunStep4
    \/ CorruptNewsFile
    \/ AdvanceDay(NewsDaySteps)

NextSave ==
    \/ RunStep2
    \/ SaveDirect
    \/ CorruptFile

SpecLock == Init /\ [][NextLock]_vars

SpecPipeline == Init /\ [][NextPipeline]_vars

SpecDedup == Init /\ [][NextDedup]_vars

SpecSave == Init /\ [][NextSave]_vars

SpecMerge == Init /\ [][NextMerge]_vars

NextCleanup ==
    \/ SaveEntry
    \/ CorruptEntry
    \/ SaveDirect
    \/ Cleanup
    \/ AdvanceDay(CleanupDaySteps)

SpecCleanup == Init /\ [][NextCleanup]_vars

NextBackup ==
    \/ BackupTick
    \/ CallBackup

SpecBackup == Init /\ [][NextBackup]_vars

NextStep0 ==
    \/ Tick /\ time' <= MaxStep0Time
    \/ OtherAcquires
    \/ OtherReleases
    \/ SaveEntry
    \/ RunStep0
    \/ AdvanceDay(Step0DaySteps)

SpecStep0 == Init /\ [][NextStep0]_vars

NextSlug ==
    \/ CallGenerateSlug
    \/ IngestNext

SpecSlug == Init /\ [][NextSlug]_vars

NextNewsId == CallGenerateNewsId

SpecNewsId == Init /\ [][NextNewsId]_vars

\* the runs of run_step2 over the days, with the days just inside and just
\* outside the lookback window
NextRuns ==
    \/ RunStep2
    \/ CorruptFile
    \/ AdvanceDay(RunDaySteps)

SpecRuns == Init /\ [][NextRuns]_vars

NextPersist ==
    \/ RunStep2
    \/ RunStep2WriteFails
    \/ RunStep4
    \/ RunStep4WriteFails

SpecPersist == Init /\ [][NextPersist]_vars

NextMergeCall == CallMerge

\* the call reads no clock
InitMergeCall == Init /\ nowTod = 0

SpecMergeCall == InitMergeCall /\ [][NextMergeCall]_vars

(***************************************************************************)
(* Claims about the lock                                                   *)
(***************************************************************************)
AcquireCalls == {i \in 1..Len(calls) : calls[i].op = "acquire"}

\* the instance's acquire_lock_file returned True and its run_step0 has not
\* yet released the lock
Holds(p) == acqTime[p] >= 0 /\ pc[p] \in {"body", "release"}

\* C3: two instances never both hold the lock, unless the lock of the first
\* to acquire was older than 3600 seconds when the second acquired (the
\* statement of the claim; the interleaved existence checks violate it)
C3_MutualExclusion ==
    \A p \in Instances : \A q \in Instances \ {p} :
        ~ ( /\ Holds(p)
            /\ Holds(q)
            /\ acqTime[p] <= acqTime[q]
            /\ acqTime[q] - acqTime[p] <= StaleAfter )

\* C4: while an instance whose Step 0 succeeded runs its later steps, an
\* instance started after it, less than 3600 seconds after its lock was
\* written, does not acquire the lock (the statement of the claim; run_step0
\* releases the lock in its finally clause, so it is violated)
C4_LockHeldUntilPipelineEnd ==
    \A p \in Instances : \A q \in Instances \ {p} :
        ( /\ pc[p] = "later"
          /\ p \in sawLater[q]
          /\ time - acqTime[p] < StaleAfter )
        => acqTime[q] < 0

\* C5: an acquire with no lock file returns True; an acquire that directly
\* follows a successful acquire, less than 3600 seconds later, returns False
\* and leaves the lock file as it was; an acquire that directly follows a
\* release returns True
C5_AcquireTwiceThenRelease ==
    \A i \in AcquireCalls :
        /\ ~calls[i].pre.exists => calls[i].ret
        /\ ( /\ i > 1
             /\ calls[i-1].op = "acquire"
             /\ calls[i-1].ret
             /\ calls[i].t - calls[i-1].t < StaleAfter )
           => ( /\ ~calls[i].ret
                /\ calls[i].post = calls[i].pre
                /\ calls[i].post.exists )
        /\ (i > 1 /\ calls[i-1].op = "release") => calls[i].ret

\* C5 witness: acquire (True, no lock before), acquire (False), release,
\* acquire (True)
C5_Witness ==
    /\ Len(calls) = 4
    /\ calls[1].op = "acquire" /\ ~calls[1].pre.exists /\ calls[1].ret
    /\ calls[2].op = "acquire" /\ ~calls[2].ret /\ calls[2].t - calls[1].t < StaleAfter
    /\ calls[3].op = "release"
    /\ calls[4].op = "acquire" /\ calls[4].ret

\* C6: an acquire that finds a lock file returns True exactly when the
\* file's age exceeds 3600 seconds; it then leaves a new lock written at the
\* time of the call, and otherwise leaves the old lock untouched
C6_StaleLockReclaimed ==
    \A i \in AcquireCalls :
        calls[i].pre.exists =>
            /\ calls[i].ret <=> (calls[i].t - calls[i].pre.mtime > StaleAfter)
            /\ calls[i].ret =>
                  /\ calls[i].post.exists
                  /\ calls[i].post.mtime = calls[i].t
            /\ ~calls[i].ret => calls[i].post = calls[i].pre

\* C6 witness: a lock aged exactly 3600 seconds was refused and a lock aged
\* more than 3600 seconds was reclaimed
C6_Witness ==
    /\ \E i \in AcquireCalls :
          /\ calls[i].pre.exists
          /\ calls[i].t - calls[i].pre.mtime = StaleAfter
          /\ ~calls[i].ret
    /\ \E j \in AcquireCalls :
          /\ calls[j].pre.exists
          /\ calls[j].t - calls[j].pre.mtime > StaleAfter
          /\ calls[j].ret
          /\ calls[j].post.mtime > calls[j].pre.mtime

(***************************************************************************)
(* Claims about the article cache                                          *)
(***************************************************************************)
\* cutoff_date of the run_step2 call just made
LastCutoff == Now(lastRun.day, lastRun.tod) - DaysDelta(ArticleLookbackDays)

\* the positions of `items` that hold the first record of a slug not in `known`
FirstFresh(items, known) ==
    {i \in 1..Len(items) :
        /\ items[i].slug \notin known
        /\ \A j \in 1..(i - 1) : items[j].slug # items[i].slug}

\* the last record of `items` with the slug
LastWith(items, slug) ==
    items[CHOOSE i \in 1..Len(items) :
             /\ items[i].slug = slug
             /\ \A j \in (i + 1)..Len(items) : items[j].slug # slug]

RECURSIVE SumLen(_)
SumLen(files) ==
    IF files = {} THEN 0
    ELSE LET f == CHOOSE g \in files : TRUE
         IN  Len(f.articles) + SumLen(files \ {f})

\* C1: a run_step2 call that repeats the call before it (the same non-empty
\* batch, the same day, nothing in between) returns no unique article,
\* duplicates_found equal to the input count and deduplication_rate 1.0
\* (the statement of the claim; a first run at midnight that found its
\* duplicate in the shard dated ten days back violates it)
C1_RepeatAllDuplicates ==
    (lastRun.called /\ lastRun.repeat /\ lastRun.input # <<>>) =>
        /\ lastRun.res.unique_articles = <<>>
        /\ lastRun.res.duplicates_found = Len(lastRun.input)
        /\ lastRun.res.rate_num = lastRun.res.rate_den

\* C2: run_step2 returns, in input order, exactly the first occurrence of
\* each slug that is not among the slugs loaded from the cache, and counts
\* every other input record as a duplicate; so no two returned records share
\* a slug and none has a slug of the loaded cache
C2_FirstOccurrenceWins ==
    lastRun.called =>
        LET input == lastRun.input
            out == lastRun.res.unique_articles
            cached == SlugsOf(lastRun.res.cached_articles)
            fresh == FirstFresh(input, cached)
        IN  /\ Len(out) = Cardinality(fresh)
            /\ \A i \in fresh :
                  out[Cardinality({j \in fresh : j < i}) + 1] = input[i]
            /\ lastRun.res.duplicates_found = Len(input) - Cardinality(fresh)
            /\ \A k \in 1..Len(out) : out[k].slug \notin cached
            /\ \A k \in 1..Len(out) : \A l \in 1..Len(out) :
                  out[k].slug = out[l].slug => k = l

\* C2 witness: a batch of a cached slug followed by a new one returned the
\* new one only and counted the other as the duplicate
C2_Witness ==
    /\ lastRun.called
    /\ Len(lastRun.input) = MaxBatch
    /\ lastRun.input[1].slug \in SlugsOf(lastRun.res.cached_articles)
    /\ lastRun.input[MaxBatch].slug \notin SlugsOf(lastRun.res.cached_articles)
    /\ lastRun.res.unique_articles = <<lastRun.input[MaxBatch]>>
    /\ lastRun.res.duplicates_found = MaxBatch - 1

\* C7: after _save_articles_to_daily_cache, today's file is valid JSON whose
\* total_count is the number of its entries, holds one entry for every slug
\* that was in the file before or is among the new articles and no other,
\* the entry being the new article where the slug is among the new ones
\* and the old entry otherwise (the statement of the claim; a call that
\* finds today's file undecodable stores none of the new articles)
C7_AppendLosesNothing ==
    lastSave.called =>
        LET old == lastSave.pre.articles
            new == lastSave.items
            post == lastSave.post
        IN  /\ post.kind = "json"
            /\ post.total_count = Len(post.articles)
            /\ SlugsOf(post.articles) = SlugsOf(old) \cup SlugsOf(new)
            /\ Cardinality(SlugsOf(post.articles)) = Len(post.articles)
            /\ \A i \in 1..Len(post.articles) :
                  IF post.articles[i].slug \in SlugsOf(new)
                  THEN post.articles[i] = LastWith(new, post.articles[i].slug)
                  ELSE \E j \in 1..Len(old) : post.articles[i] = old[j]

\* C7, for the calls that return True (today's file absent, valid, or text
\* that is no valid JSON of the schema): the file then holds exactly the old
\* and the new entries, the new ones winning; a call that returns False
\* leaves the file as it was
C7_SavedKeepsEverything ==
    lastSave.called =>
        LET old == lastSave.pre.articles
            new == lastSave.items
            post == lastSave.post
        IN  /\ lastSave.ret <=> lastSave.pre.kind # "undecodable"
            /\ ~lastSave.ret => post = lastSave.pre
            /\ lastSave.ret =>
                  /\ post.kind = "json"
                  /\ post.total_count = Len(post.articles)
                  /\ SlugsOf(post.articles) = SlugsOf(old) \cup SlugsOf(new)
                  /\ Cardinality(SlugsOf(post.articles)) = Len(post.articles)
                  /\ \A i \in 1..Len(post.articles) :
                        IF post.articles[i].slug \in SlugsOf(new)
                        THEN post.articles[i] = LastWith(new, post.articles[i].slug)
                        ELSE \E j \in 1..Len(old) : post.articles[i] = old[j]

\* the date-named files of the directory before the run that are not older
\* than its cutoff
InWindow == {f \in lastRun.preFiles : FileDate(f.day) >= LastCutoff}

ValidInWindow == {f \in InWindow : f.kind = "json" /\ f.total_count = Len(f.articles)}

\* C8: _load_cached_articles returns for any directory: files_loaded is the
\* number of valid files not older than the cutoff, whose articles are all
\* returned; files_corrupted is the number of files not older than the cutoff
\* that fail JSON or schema validation plus the files whose name is no date;
\* the files older than the cutoff are in neither counter and give no article
C8_CorruptFileCountedNotRaised ==
    lastRun.called =>
        LET res == lastRun.res IN
        /\ res.success
        /\ res.cache_files_loaded = Cardinality(ValidInWindow)
        /\ res.cache_files_corrupted =
              Cardinality(InWindow \ ValidInWindow) + (IF lastRun.preStray THEN 1 ELSE 0)
        /\ res.cache_articles = SumLen(ValidInWindow)
        /\ Len(res.cached_articles) = res.cache_articles
        /\ \A f \in ValidInWindow : \A i \in 1..Len(f.articles) :
              \E k \in 1..Len(res.cached_articles) : res.cached_articles[k] = f.articles[i]
        /\ \A k \in 1..Len(res.cached_articles) :
              \E f \in ValidInWindow : \E i \in 1..Len(f.articles) :
                  res.cached_articles[k] = f.articles[i]

\* C8 witness: a run over one valid and one damaged file, both in the window,
\* returned the valid file's articles, files_loaded 1 and files_corrupted 1
C8_Witness ==
    /\ lastRun.called
    /\ Cardinality(ValidInWindow) = 1
    /\ Cardinality(InWindow \ ValidInWindow) = 1
    /\ ~lastRun.preStray
    /\ lastRun.res.cache_files_loaded = 1
    /\ lastRun.res.cache_files_corrupted = 1
    /\ lastRun.res.cache_articles > 0

\* C9: a run on day D at any time of day reads the files dated D - 10 or
\* later and no file dated D - 11 or earlier (the statement of the claim for
\* the article cache; the cutoff carries the time of day, so after midnight
\* the file dated D - 10 is skipped)
C9_CutoffDayLoaded ==
    lastRun.called =>
        lastRun.res.cache_files_loaded + lastRun.res.cache_files_corrupted =
            Cardinality({f \in lastRun.preFiles : f.day >= lastRun.day - ArticleLookbackDays})
            + (IF lastRun.preStray THEN 1 ELSE 0)

(***************************************************************************)
(* Claims about the cluster cache                                          *)
(***************************************************************************)
RECURSIVE SumNews(_)
SumNews(files) ==
    IF files = {} THEN 0
    ELSE LET f == CHOOSE g \in files : TRUE
         IN  Len(f.news) + SumNews(files \ {f})

\* C9, for the cluster cache: a run on day D at any time of day loads the
\* readable shards dated D - 3 or later and none dated earlier (the statement
\* of the claim; violated as it is for the article cache)
C9_NewsCutoffDayLoaded ==
    lastStep4.called =>
        Len(lastStep4.cached_news) =
            SumNews({f \in lastStep4.preFiles :
                        /\ f.kind = "json"
                        /\ f.day >= lastStep4.day - NewsLookbackDays})

\* the run_step4 call just made went through _merge_duplicate_news
Merged == lastStep4.called /\ lastStep4.res.api_calls = 1

\* the pairs of the call whose two ids name a cluster of today's list and
\* one of the cached list
Resolvable ==
    {i \in 1..Len(lastStep4.pairs) :
        /\ lastStep4.pairs[i].news_today_id \in NewsIds(lastStep4.today_news)
        /\ lastStep4.pairs[i].news_cached_id \in NewsIds(lastStep4.cached_news)}

PairIds(i) == {lastStep4.pairs[i].news_today_id, lastStep4.pairs[i].news_cached_id}

\* no other resolvable pair of the call names a cluster of pair i
Alone(i) == \A j \in Resolvable \ {i} : PairIds(j) \cap PairIds(i) = {}

\* C10: for every resolvable pair whose clusters differ in article_count,
\* the merged cluster built for it has news_id and title (summary,
\* main_topic, created_at) of the cluster with the larger article_count,
\* article_slugs the union of the two clusters' and article_count the size of
\* the union; it is in the returned list when no other pair of the call
\* names one of the two clusters
C10_LargerClusterIsBase ==
    Merged =>
        /\ Len(lastStep4.updates) = Cardinality(Resolvable)
        /\ \A i \in Resolvable :
            LET t == MapGet(lastStep4.today_news, lastStep4.pairs[i].news_today_id)
                c == MapGet(lastStep4.cached_news, lastStep4.pairs[i].news_cached_id)
                larger == IF t.article_count > c.article_count THEN t ELSE c
                u == lastStep4.updates[Cardinality({j \in Resolvable : j <= i})]
                out == lastStep4.res.unique_news
            IN  t.article_count # c.article_count =>
                    /\ u.pair = lastStep4.pairs[i]
                    /\ u.updated_news.news_id = larger.news_id
                    /\ u.updated_news.title = larger.title
                    /\ u.updated_news.article_slugs = t.article_slugs \cup c.article_slugs
                    /\ u.updated_news.article_count =
                          Cardinality(t.article_slugs \cup c.article_slugs)
                    /\ u.updated_news.updated
                    /\ Alone(i) => \E k \in 1..Len(out) : out[k] = u.updated_news

\* C10 witness: a today cluster of 1 article and a cached cluster of 3 other
\* articles, linked by the one pair of the call, gave a cluster with the
\* cached cluster's id and article_count 4
C10_Witness ==
    /\ Merged
    /\ Len(lastStep4.pairs) = 1
    /\ Resolvable = {1}
    /\ LET t == MapGet(lastStep4.today_news, lastStep4.pairs[1].news_today_id)
           c == MapGet(lastStep4.cached_news, lastStep4.pairs[1].news_cached_id)
       IN  /\ t.article_count = 1
           /\ c.article_count = 3
           /\ t.article_slugs \cap c.article_slugs = {}
           /\ \E k \in 1..Len(lastStep4.res.unique_news) :
                 /\ lastStep4.res.unique_news[k].news_id = c.news_id
                 /\ lastStep4.res.unique_news[k].article_count = 4

(***************************************************************************)
(* Claims about _merge_duplicate_news                                      *)
(***************************************************************************)
\* the pairs of the call whose two ids name a cluster of today's list and
\* one of the cached list
MResolvable ==
    {i \in 1..Len(lastMerge.pairs) :
        /\ lastMerge.pairs[i].news_today_id \in NewsIds(lastMerge.today_news)
        /\ lastMerge.pairs[i].news_cached_id \in NewsIds(lastMerge.cached_news)}

\* the clusters pair i names
MToday(i) == MapGet(lastMerge.today_news, lastMerge.pairs[i].news_today_id)

MCached(i) == MapGet(lastMerge.cached_news, lastMerge.pairs[i].news_cached_id)

\* the cluster built for the resolvable pair i
MUpdate(i) == lastMerge.updates[Cardinality({j \in MResolvable : j <= i})].updated_news

MPairIds(i) == {lastMerge.pairs[i].news_today_id, lastMerge.pairs[i].news_cached_id}

\* no other resolvable pair of the call names a cluster of pair i
MAlone(i) == \A j \in MResolvable \ {i} : MPairIds(j) \cap MPairIds(i) = {}

\* the clusters of the returned list with this id
OutWithId(id) ==
    {lastMerge.news[k] : k \in {j \in 1..Len(lastMerge.news) : lastMerge.news[j].news_id = id}}

\* C11: when the today cluster and the cached cluster of a pair have the
\* same article_count (and different ids, no other pair naming either and
\* the cache holding no cluster of the today id), the merged cluster has the
\* cached cluster's news_id and the today cluster's id is not in the
\* returned list
C11_TieKeepsCachedBase ==
    lastMerge.called =>
        \A i \in MResolvable :
            (/\ MToday(i).article_count = MCached(i).article_count
             /\ MToday(i).news_id # MCached(i).news_id
             /\ MToday(i).news_id \notin NewsIds(lastMerge.cached_news)
             /\ MAlone(i))
            => /\ MUpdate(i).news_id = MCached(i).news_id
               /\ MUpdate(i) \in OutWithId(MCached(i).news_id)
               /\ OutWithId(MToday(i).news_id) = {}

\* the side of pair i with the larger article_count, and the other side
\* (pairs of equal counts are C11's)
LargerSide(i) == IF MToday(i).article_count > MCached(i).article_count THEN "today" ELSE "cached"

MBase(i) == IF LargerSide(i) = "today" THEN MToday(i) ELSE MCached(i)

MAbsorbed(i) == IF LargerSide(i) = "today" THEN MCached(i) ELSE MToday(i)

Uneven(i) == MToday(i).article_count # MCached(i).article_count

\* C12: when two pairs of one call have the same cluster as their base (the
\* larger side of each), the returned list holds a cluster of the base's id
\* with the article_slugs of the base and of both clusters merged into it
C12_SameBaseMergesCompose ==
    lastMerge.called =>
        \A i \in MResolvable : \A j \in MResolvable :
            (/\ i < j
             /\ Uneven(i) /\ Uneven(j)
             /\ LargerSide(i) = LargerSide(j)
             /\ MBase(i).news_id = MBase(j).news_id)
            => \E c \in OutWithId(MBase(i).news_id) :
                  (MBase(i).article_slugs \cup MAbsorbed(i).article_slugs
                      \cup MAbsorbed(j).article_slugs) \subseteq c.article_slugs

\* the clusters of a list by news_id, article_slugs and article_count,
\* whatever their place in the list and their updated_at
ClusterSet(news) ==
    {[news_id |-> news[k].news_id, article_slugs |-> news[k].article_slugs,
      article_count |-> news[k].article_count] : k \in 1..Len(news)}

\* the lists with the elements of `pairs` in another order
Reorderings(pairs) ==
    {[k \in 1..Len(pairs) |-> pairs[f[k]]] :
        f \in {g \in [1..Len(pairs) -> 1..Len(pairs)] :
                  \A a \in 1..Len(pairs) : \A b \in 1..Len(pairs) : g[a] = g[b] => a = b}}

\* the id of the base of pair i as the code takes it (today's cluster unless
\* the cached one is larger) and as the tie rule of C11 has it (the cached
\* cluster unless today's is larger)
CodeBaseId(i) == PickBase(MToday(i), MCached(i)).news_id

TieCachedBaseId(i) ==
    IF MToday(i).article_count > MCached(i).article_count
    THEN MToday(i).news_id
    ELSE MCached(i).news_id

\* base == cached_item gives for a pair what it gave for it in the call made
SameComparisons(updates) ==
    \A a \in 1..Len(updates) : \A b \in 1..Len(lastMerge.updates) :
        updates[a].pair = lastMerge.updates[b].pair
            => updates[a].base_is_cached = lastMerge.updates[b].base_is_cached

\* C13: when every pair of the call is resolvable and no two of them have
\* the same base id, the pairs taken in any other order give the same
\* clusters: the same ids, each with the same article_slugs and article_count
C13_OrderOfPairsIrrelevant ==
    (/\ lastMerge.called
     /\ MResolvable = 1..Len(lastMerge.pairs)
     /\ SameComparisons(lastMerge.updates)
     /\ \A i \in MResolvable : \A j \in MResolvable :
           i # j => /\ CodeBaseId(i) # CodeBaseId(j)
                    /\ TieCachedBaseId(i) # TieCachedBaseId(j))
    => \A q \in Reorderings(lastMerge.pairs) :
          \A out \in merge_duplicate_news(lastMerge.today_news, lastMerge.cached_news, q) :
              SameComparisons(out.updates) => ClusterSet(out.news) = ClusterSet(lastMerge.news)

\* C13 where no pair is a tie: the pairs in any other order give the same
\* clusters
C13_OrderIrrelevantWithoutTies ==
    (/\ lastMerge.called
     /\ MResolvable = 1..Len(lastMerge.pairs)
     /\ SameComparisons(lastMerge.updates)
     /\ \A i \in MResolvable : Uneven(i)
     /\ \A i \in MResolvable : \A j \in MResolvable :
           i # j => CodeBaseId(i) # CodeBaseId(j))
    => \A q \in Reorderings(lastMerge.pairs) :
          \A out \in merge_duplicate_news(lastMerge.today_news, lastMerge.cached_news, q) :
              SameComparisons(out.updates) => ClusterSet(out.news) = ClusterSet(lastMerge.news)

\* the clusters news_<day>.json holds (none when there is no such file or it
\* cannot be read)
ShardNews(files, day) ==
    IF \E f \in files : f.day = day /\ f.kind = "json"
    THEN (CHOOSE f \in files : f.day = day /\ f.kind = "json").news
    ELSE <<>>

\* C14: when run_step4 is called again on the same day with the same
\* clusters and the same pairs, today's shard holds after the second call the
\* clusters it held after the first, and one entry for each news_id
C14_RerunConverges ==
    (lastStep4.called /\ lastStep4.repeat) =>
        LET before == ShardNews(lastStep4.preFiles, lastStep4.day)
            after == ShardNews(newsFiles, lastStep4.day)
        IN  /\ ClusterSet(after) = ClusterSet(before)
            /\ \A i \in 1..Len(after) : \A j \in 1..Len(after) :
                  after[i].news_id = after[j].news_id => i = j

\* the clusters of a list
ClustersOf(news) == {news[k] : k \in 1..Len(news)}

\* the today clusters no resolvable pair names
Unpaired ==
    {c \in ClustersOf(lastMerge.today_news) :
        \A i \in MResolvable : lastMerge.pairs[i].news_today_id # c.news_id}

CountId(news, id) == Cardinality({k \in 1..Len(news) : news[k].news_id = id})

\* the cached clusters no resolvable pair names
Untouched ==
    {c \in ClustersOf(lastMerge.cached_news) :
        \A i \in MResolvable : lastMerge.pairs[i].news_cached_id # c.news_id}

\* C16: the clusters no resolvable pair names are in the returned list as
\* they were; with no such pair the list is the cached clusters followed by
\* today's; with one such pair whose cached cluster is the larger, the list
\* has one cluster fewer than the two lists together and the today cluster
\* of the pair is not an entry of it
C16_OthersPassThrough ==
    lastMerge.called =>
        /\ Untouched \subseteq ClustersOf(lastMerge.news)
        /\ Unpaired \subseteq ClustersOf(lastMerge.news)
        /\ MResolvable = {} =>
              lastMerge.news = lastMerge.cached_news \o lastMerge.today_news
        /\ \A i \in MResolvable :
              (MResolvable = {i} /\ MToday(i).article_count < MCached(i).article_count)
              => /\ Len(lastMerge.news) =
                       Len(lastMerge.cached_news) + Len(lastMerge.today_news) - 1
                 /\ CountId(lastMerge.news, MToday(i).news_id) =
                       CountId(lastMerge.cached_news, MToday(i).news_id)

\* C16 witness: two cached clusters and two today clusters, one pair that
\* merges a today cluster into the larger cached one: three clusters are
\* returned, the other cached cluster and the other today cluster among them
C16_Witness ==
    /\ lastMerge.called
    /\ Len(lastMerge.cached_news) = 2
    /\ Len(lastMerge.today_news) = 2
    /\ Len(lastMerge.news) = 3
    /\ \E i \in MResolvable :
          /\ MResolvable = {i}
          /\ MToday(i).article_count < MCached(i).article_count
          /\ OutWithId(MToday(i).news_id) = {}
          /\ MUpdate(i) \in ClustersOf(lastMerge.news)
    /\ Untouched # {}
    /\ Unpaired # {}

\* the pairs of the call without those that name an id no cluster has
ResolvablePairs ==
    SelectSeq(lastMerge.pairs,
              LAMBDA pr : /\ pr.news_today_id \in NewsIds(lastMerge.today_news)
                          /\ pr.news_cached_id \in NewsIds(lastMerge.cached_news))

\* C17: a pair naming an id that no cluster of today's list, or none of the
\* cached list, has is passed over: every other pair is applied, in order,
\* and the list returned is the one the call returns without such pairs (the
\* keywords kept and the outcome of base == cached_item being the same)
C17_UnresolvablePairSkipped ==
    lastMerge.called =>
        /\ Len(lastMerge.updates) = Len(ResolvablePairs)
        /\ \A k \in 1..Len(ResolvablePairs) : lastMerge.updates[k].pair = ResolvablePairs[k]
        /\ ResolvablePairs # lastMerge.pairs =>
              \E out \in merge_duplicate_news(lastMerge.today_news, lastMerge.cached_news,
                                              ResolvablePairs) :
                  out.updates = lastMerge.updates /\ out.news = lastMerge.news

\* C17 witness: the first pair of the call names an unknown id, the second
\* is resolvable and the cluster merged for it is in the returned list
C17_Witness ==
    /\ lastMerge.called
    /\ Len(lastMerge.pairs) = 2
    /\ MResolvable = {2}
    /\ UnknownId \in MPairIds(1)
    /\ Len(lastMerge.updates) = 1
    /\ MUpdate(2) \in ClustersOf(lastMerge.news)
    /\ MUpdate(2).article_count > MCached(2).article_count

\* the merges of the call that name the today cluster of this id
MergesOf(id) ==
    {k \in 1..Len(lastMerge.updates) : lastMerge.updates[k].pair.news_today_id = id}

\* the cached cluster that merge k names
CachedOf(k) == MapGet(lastMerge.cached_news, lastMerge.updates[k].pair.news_cached_id)

\* the cached clusters merged into the today cluster `t` as their base, and
\* the cached clusters it is merged into
AsBase(t) ==
    {CachedOf(k).news_id : k \in {m \in MergesOf(t.news_id) :
                                     t.article_count >= CachedOf(m).article_count}}

AbsorbedInto(t) ==
    {CachedOf(k).news_id : k \in {m \in MergesOf(t.news_id) :
                                     t.article_count < CachedOf(m).article_count}}

\* C18: in one call a today cluster is merged into at most one cached
\* cluster, or is the base of a merge with at most one cached cluster,
\* however many pairs name it
C18_ClusterChangesOnce ==
    lastMerge.called =>
        \A t \in ClustersOf(lastMerge.today_news) :
            Cardinality(AsBase(t)) + Cardinality(AbsorbedInto(t)) <= 1

(***************************************************************************)
(* Claims about run_step0's cleanup and backup                             *)
(***************************************************************************)
\* C19: after the cleanup no date shard of articles or of news older than
\* the retention of its category (10 days, 3 days) is on disk, and every
\* shard that was there and is not older than that still is
C19_ExpiredShardsRemoved ==
    lastCleanup.called =>
        /\ \A f \in lastCleanup.postArticles : lastCleanup.day - f.day <= ArticlesDays
        /\ \A f \in lastCleanup.postNews : lastCleanup.day - f.day <= NewsDays
        /\ \A f \in lastCleanup.preArticles :
              lastCleanup.day - f.day <= ArticlesDays => f \in lastCleanup.postArticles
        /\ \A f \in lastCleanup.preNews :
              lastCleanup.day - f.day <= NewsDays => f \in lastCleanup.postNews

\* C19, for the entries kept by key: after the cleanup an entry of a key of
\* the policy is on disk exactly if it was there, could be read, and was
\* cached fewer whole days ago than the retention of its key
C19_ExpiredEntriesRemoved ==
    lastCleanup.called =>
        \A key \in PolicyKeys :
            LET pre == lastCleanup.preEntries[key]
                post == lastCleanup.postEntries[key]
                age == Now(lastCleanup.day, lastCleanup.tod) - pre.cached_at
            IN  /\ post.exists <=> (/\ pre.exists
                                    /\ pre.kind = "json"
                                    /\ age \div TicksPerDay < RetentionPolicy[key])
                /\ post.exists => post = pre

\* the timestamps of the directories made so far
Created == {created[k] : k \in 1..Len(created)}

\* C20, for every number of calls: at most 5 backup directories exist, all
\* of them made by a call, and every directory made and no longer there is
\* older than all that are there
C20_AtMostFiveNewest ==
    /\ Cardinality(backups) <= BackupsKept
    /\ backups \subseteq Created
    /\ \A gone \in Created \ backups : \A b \in backups : gone < b
    /\ Cardinality(backups) < BackupsKept => backups = Created

\* C20: at most 5 backup directories exist, the most recently created ones;
\* after 7 calls exactly 5 exist and those of the first two calls are gone
C20_FiveOfSevenBackupsRemain ==
    /\ C20_AtMostFiveNewest
    /\ Len(created) = 7 =>
          /\ Cardinality(backups) = BackupsKept
          /\ created[1] \notin backups
          /\ created[2] \notin backups


(***************************************************************************)
(* Claims about run_step0                                                  *)
(***************************************************************************)
\* the call just made got the lock and its _backup_cache raised, nothing
\* else went wrong, and the cleanup is configured
BackupFailedOnly ==
    /\ lastStep0.called
    /\ lastStep0.acquired
    /\ lastStep0.config.backup_on_error
    /\ lastStep0.config.cleanup_on_start
    /\ lastStep0.faults.backup # "none"
    /\ ~lastStep0.faults.permissions
    /\ ~lastStep0.faults.cleanup
    /\ lastStep0.faults.unexpected = "none"

\* the cleanup of the call just made was carried out on the entries
CleanupPerformed ==
    /\ lastStep0.cleanup_done
    /\ lastStep0.postEntries
          = cleanup(lastStep0.preEntries, lastStep0.now, RetentionPolicy)

\* C21: when the backup of run_step0 fails and nothing else does, the
\* cleanup is still carried out and run_pipeline goes on to Step 1, without
\* a backup, instead of aborting.
C21_BackupFailureNotFatal ==
    BackupFailedOnly =>
        /\ CleanupPerformed
        /\ ~lastStep0.result.cache_backed_up
        /\ lastStep0.continues

\* C21, the part about Step 0 alone: the cleanup is carried out after the
\* failed backup, and the failure is in the errors of the result.
C21_CleanupAfterBackupFailure ==
    BackupFailedOnly =>
        /\ CleanupPerformed
        /\ ~lastStep0.result.cache_backed_up
        /\ lastStep0.result.errors = <<"Cache backup failed">>


C24_NoOwnLockAfterReturn ==
    \A p \in Instances :
        pc[p] \in {"later", "failed", "done"} =>
            ~(lockFile.exists /\ lockFile.owner = p)

\* the call just made found the unexpired lock of the other instance
LockHeldByOther ==
    /\ lastStep0.called
    /\ lastStep0.preLock.exists
    /\ lastStep0.preLock.owner = 2
    /\ ~LockIsStale(lastStep0.preLock, lastStep0.t)

\* C25: a run_step0 call that finds the unexpired lock of another instance
\* returns success = False and changes nothing on disk: the lock file of the
\* other instance is still there and a third instance fails to acquire it.
C25_FailedAcquireChangesNothing ==
    LockHeldByOther =>
        /\ ~lastStep0.acquired
        /\ ~lastStep0.result.success
        /\ lastStep0.postLock = lastStep0.preLock
        /\ ~acquire_lock_file(lastStep0.postLock, lastStep0.t, 3).ret
        /\ lastStep0.postEntries = lastStep0.preEntries
        /\ lastStep0.postBackups = lastStep0.preBackups

\* C25 without the lock file: the call fails and leaves the entries and the
\* backups as they were.
C25_FailedAcquireLeavesCache ==
    LockHeldByOther =>
        /\ ~lastStep0.acquired
        /\ ~lastStep0.result.success
        /\ lastStep0.result.errors = <<"Failed to acquire lock file">>
        /\ lastStep0.postEntries = lastStep0.preEntries
        /\ lastStep0.postBackups = lastStep0.preBackups


(***************************************************************************)
(* Claims about generate_slug and _generate_news_id                        *)
(***************************************************************************)
\* the counters of the ten variants of the title of the call that are not
\* among existing_slugs: 0 is the base slug, k is base_k
FreeVariants ==
    {k \in 0..(SlugTries - 1) :
        Variant(base_slug(slugCall.title), k) \notin slugCall.existing_slugs}

CountIn(list, x) == Cardinality({k \in 1..Len(list) : list[k] = x})

\* one list is a permutation of the other
PermutationOf(l1, l2) ==
    /\ Len(l1) = Len(l2)
    /\ \A x \in IdSlugs : CountIn(l1, x) = CountIn(l2, x)

\* C23: two _generate_news_id calls with the same title and with lists of
\* slugs that are permutations of each other, the same list included,
\* return the same id.
C23_NewsIdOrderIndependent ==
    \A i, j \in 1..Len(idCalls) :
        (/\ idCalls[i].title = idCalls[j].title
         /\ PermutationOf(idCalls[i].article_slugs, idCalls[j].article_slugs))
        => idCalls[i].news_id = idCalls[j].news_id

\* two calls with the same two slugs in the two orders
C23_Witness ==
    \E i, j \in 1..Len(idCalls) :
        /\ i # j
        /\ idCalls[i].title = idCalls[j].title
        /\ Len(idCalls[i].article_slugs) = MaxIdSlugs
        /\ CountIn(idCalls[i].article_slugs, idCalls[i].article_slugs[1]) = 1
        /\ PermutationOf(idCalls[i].article_slugs, idCalls[j].article_slugs)
        /\ idCalls[i].article_slugs # idCalls[j].article_slugs
        /\ idCalls[i].news_id = idCalls[j].news_id


(***************************************************************************)
(* Claims about the runs of run_step4 and run_step2                        *)
(***************************************************************************)
\* no two clusters of the list have the same news_id
DistinctIds(news) ==
    \A i \in 1..Len(news) : \A j \in 1..Len(news) :
        news[i].news_id = news[j].news_id => i = j

\* C26: with today's clusters of pairwise distinct ids, the list run_step4
\* returns and the shard it leaves for the day hold no two clusters of the
\* same id, on the first run and on the runs that reload the shards of the
\* runs before.
C26_NoDuplicateIds ==
    (/\ lastStep4.called
     /\ lastStep4.res.success
     /\ DistinctIds(lastStep4.today_news)) =>
        /\ DistinctIds(lastStep4.res.unique_news)
        /\ DistinctIds(ShardNews(newsFiles, lastStep4.day))

\* C26 for a run that finds no cluster shard to load: what it returns and
\* writes is today's list, of distinct ids.
C26_FirstRunDistinct ==
    (/\ lastStep4.called
     /\ lastStep4.res.success
     /\ lastStep4.cached_news = <<>>
     /\ DistinctIds(lastStep4.today_news)) =>
        /\ DistinctIds(lastStep4.res.unique_news)
        /\ DistinctIds(ShardNews(newsFiles, lastStep4.day))


\* C27: while no shard was damaged, and so no write of a shard failed, an
\* article returned as unique by a run_step2 call is not returned as unique
\* by a later call on the same day or fewer than 10 days later.
C27_UniqueOnlyOnceInWindow ==
    corrupted = 0 =>
        \A i \in 1..Len(runLog) : \A j \in (i + 1)..Len(runLog) :
            runLog[j].day - runLog[i].day < ArticleLookbackDays =>
                runLog[i].unique \cap runLog[j].unique = {}

\* an article was returned as unique, offered again nine days later and
\* found to be a duplicate
C27_Witness ==
    /\ corrupted = 0
    /\ Len(runLog) >= 2
    /\ lastRun.called
    /\ \E i \in 1..(Len(runLog) - 1) :
          /\ runLog[Len(runLog)].day - runLog[i].day = ArticleLookbackDays - 1
          /\ runLog[i].unique \cap SlugsOf(lastRun.input) # {}
          /\ runLog[i].unique \cap runLog[Len(runLog)].unique = {}


(***************************************************************************)
(* Claims about the keywords and the statistics of a merge                 *)
(***************************************************************************)
\* the base of the merge of pair i, and the cluster merged into it
KwBase(i) == PickBase(MToday(i), MCached(i))

KwAbsorbed(i) == IF KwBase(i) = MToday(i) THEN MCached(i) ELSE MToday(i)

\* C28: the keywords of a merged cluster are those of the base followed by
\* the new ones of the absorbed cluster, cut to the first 10: they are 10 of
\* the keywords of the two, or all of them when there are fewer, and with a
\* base of at most 10 keywords every keyword of the base is among them.
C28_BaseKeywordsSurvive ==
    lastMerge.called =>
        \A i \in MResolvable :
            LET both == KwBase(i).keywords \cup KwAbsorbed(i).keywords IN
            /\ MUpdate(i).keywords \subseteq both
            /\ Cardinality(MUpdate(i).keywords)
                  = IF Cardinality(both) <= KeywordLimit
                    THEN Cardinality(both) ELSE KeywordLimit
            /\ Cardinality(KwBase(i).keywords) <= KeywordLimit
                  => KwBase(i).keywords \subseteq MUpdate(i).keywords

\* C28 without the order: the keywords of a merged cluster are 10 of the
\* keywords of the two clusters, and all of them when there are at most 10.
C28_KeywordsOfBoth ==
    lastMerge.called =>
        \A i \in MResolvable :
            LET both == KwBase(i).keywords \cup KwAbsorbed(i).keywords IN
            /\ MUpdate(i).keywords \subseteq both
            /\ Cardinality(MUpdate(i).keywords)
                  = IF Cardinality(both) <= KeywordLimit
                    THEN Cardinality(both) ELSE KeywordLimit
            /\ Cardinality(both) <= KeywordLimit => MUpdate(i).keywords = both

(***************************************************************************)
(* Claims about a failed write of today's shard                            *)
(***************************************************************************)

\* C29: when the write of today's shard fails while a step persists its
\* result, the step (run_step2 or run_step4) returns success = False, and
\* not a success whose result was not persisted.
C29_WriteFailureReportedAsFailure ==
    lastPersist.write_failed => ~lastPersist.success

\* What the code does: run_step4 returns success = False after a failed
\* write, and run_step2 returns success = True.
C29_OnlyMergeReportsWriteFailure ==
    lastPersist.write_failed =>
        /\ lastPersist.step = "run_step4" => ~lastPersist.success
        /\ lastPersist.step = "run_step2" => lastPersist.success

(***************************************************************************)
(* Claims about the statistics of run_step4                                *)
(***************************************************************************)

\* C30: news_merged of the Step4Result is the number of the pairs that were
\* resolved and merged, so that a pair skipped because one of its ids names
\* no cluster shows as news_merged < duplicates_found.
C30_NewsMergedCountsMerges ==
    Merged =>
        /\ lastStep4.res.news_merged = Len(lastStep4.updates)
        /\ Cardinality(Resolvable) < Len(lastStep4.pairs) =>
              lastStep4.res.news_merged < lastStep4.res.duplicates_found

\* What the code does: news_merged is duplicates_found, the number of the
\* pairs the API returned, whatever _merge_duplicate_news skipped; the
\* number of the merges made is the number of the resolvable pairs.
C30_NewsMergedIsDuplicatesFound ==
    lastStep4.called =>
        /\ lastStep4.res.news_merged = lastStep4.res.duplicates_found
        /\ Merged => /\ lastStep4.res.duplicates_found = Len(lastStep4.pairs)
                     /\ Len(lastStep4.updates) = Cardinality(Resolvable)

=============================================================================
